---- MODULE Spec2Model ----
(***************************************************************************)
(* OpenPaint vector editing core: the document store (scene graph,         *)
(* selection, operation history), the selection / shape / freehand tool    *)
(* state machines and the pointer dispatch of VectorCanvas.                *)
(*                                                                         *)
(* Coordinates are fixed-point: one model unit is 1/Unit of a pixel, so    *)
(* that the divisions by 2 (ellipse radii, handle midpoints) and by 6      *)
(* (freehand control points) of the source are exact on the pointer grid.  *)
(* Pixel constants of the source are written Px(n).                        *)
(***************************************************************************)
EXTENDS Integers, Sequences, FiniteSets, TLC

\* ------------------------------------------------------------------------
\* Model bounds
\* ------------------------------------------------------------------------

\* number of object ids uuidv4() can hand out
MaxObjects == 2

\* number of history entry ids uuidv4() can hand out (total pushHistory calls)
MaxPushes == 3

\* stands for maxHistoryLength (200 in the store), scaled so eviction is reachable
MaxHistoryLength == 2

\* number of samples a freehand gesture collects
MaxSamples == 2

\* committed drags of the selection tool followed in one run of SpecSelection
MaxDrags == 1

\* documents created or opened in one run
MaxDocuments == 2

\* layers of one document
MaxLayers == 2

\* arrow keys handled in one run
MaxNudges == 2

\* tool shortcuts pressed in mid-gesture in one run
MaxSwitches == 2

\* ------------------------------------------------------------------------
\* Numbers
\* ------------------------------------------------------------------------

Unit == 2 * 3

Px(n) == n * Unit

DRAG_THRESHOLD == 3

HANDLE_HIT_SIZE == 10

SHAPE_MIN_DIST == 3

\* hitTestLine: tolerance in pixels
LINE_HIT_TOLERANCE == 5

\* renderSelectionForObject: handleSize in pixels
HANDLE_SIZE == 6

MIN_DISTANCE == 2

MIN_RESIZE == 2

PATH_HIT_WIDTH == 5

Abs(n) == IF n < 0 THEN -n ELSE n

Min(a, b) == IF a <= b THEN a ELSE b

Max(a, b) == IF a >= b THEN a ELSE b

Sign(n) == IF n > 0 THEN 1 ELSE IF n < 0 THEN -1 ELSE 0

\* Math.hypot(dx, dy) compared through its square
HypotSq(dx, dy) == dx * dx + dy * dy

Pt(x, y) == [x |-> x, y |-> y]

\* pointer positions delivered by the host while the selection or a utility tool is active
Points == {Pt(0, 0), Pt(Px(3), 0), Pt(Px(6), Px(6)), Pt(Px(12), Px(12))}

\* pointer positions delivered by the host while a shape tool or the brush is active
DrawPoints == {Pt(0, 0), Pt(Px(3), 0), Pt(Px(12), Px(12))}

\* fill settings of the canvas store read at commit time: fillEnabled, fillColor
NoFill == "null"

FillSettings == {NoFill, "#000000"}

\* fill setting in force when an object is created
CreateFills == {"#000000"}

\* modifier keys (shiftKey, altKey) reported with a shape-tool pointer move
ShapeModifiers == {<<FALSE, FALSE>>}

NoId == 0

\* ------------------------------------------------------------------------
\* Array helpers (JavaScript semantics, 0-based indices)
\* ------------------------------------------------------------------------

\* arr.splice(index, 0, e)
SpliceInsert(arr, index, e) ==
  LET k == IF index < 0 THEN Max(Len(arr) + index, 0) ELSE Min(index, Len(arr))
  IN SubSeq(arr, 1, k) \o <<e>> \o SubSeq(arr, k + 1, Len(arr))

\* the value a destructuring of an empty array binds: const [removed] = []
undefined == [type |-> "undefined"]

\* arr.splice(index, 1): the array afterwards and the array of the removed elements
SpliceRemove(arr, index) ==
  LET k == IF index < 0 THEN Max(Len(arr) + index, 0) ELSE Min(index, Len(arr))
  IN IF k < Len(arr)
     THEN [rest |-> SubSeq(arr, 1, k) \o SubSeq(arr, k + 2, Len(arr)), removed |-> <<arr[k + 1]>>]
     ELSE [rest |-> arr, removed |-> <<>>]

\* const [removed] = arr.splice(fromIndex, 1); arr.splice(toIndex, 0, removed)
MoveElement(arr, fromIndex, toIndex) ==
  LET r == SpliceRemove(arr, fromIndex)
  IN SpliceInsert(r.rest, toIndex, IF r.removed = <<>> THEN undefined ELSE r.removed[1])

\* arr.findIndex(o => o.id === id)
FindIndex(arr, id) ==
  IF \E i \in 1..Len(arr) : arr[i].id = id
  THEN (CHOOSE i \in 1..Len(arr) : arr[i].id = id /\ \A j \in 1..(i - 1) : arr[j].id # id) - 1
  ELSE -1

\* arr.includes(id)
Includes(arr, id) == \E i \in 1..Len(arr) : arr[i] = id

\* { ...obj, ...updates }
Merge(obj, updates) ==
  [k \in (DOMAIN obj) \cup (DOMAIN updates) |->
     IF k \in DOMAIN updates THEN updates[k] ELSE obj[k]]

\* ------------------------------------------------------------------------
\* Object model (types/vector)
\* ------------------------------------------------------------------------

createTransform(x, y) == [x |-> x, y |-> y, rotation |-> 0, scaleX |-> 1, scaleY |-> 1]

\* opacity 1, in tenths
FullOpacity == 10

createLayer(id) ==
  [id |-> id, visible |-> TRUE, locked |-> FALSE, opacity |-> FullOpacity, objects |-> <<>>]

\* ------------------------------------------------------------------------
\* Geometry kernel (lib/vector/bounds)
\* ------------------------------------------------------------------------

Box(x, y, w, h) == [x |-> x, y |-> y, width |-> w, height |-> h]

\* Math.cos and Math.sin of an angle in degrees, for the quarter turns; the pointer
\* tools build transforms of rotation 0, a project file may carry any rotation
CosDeg(degrees) ==
  CASE degrees % 360 = 0 -> 1
    [] degrees % 360 = 90 -> 0
    [] degrees % 360 = 180 -> -1
    [] degrees % 360 = 270 -> 0

SinDeg(degrees) ==
  CASE degrees % 360 = 0 -> 0
    [] degrees % 360 = 90 -> 1
    [] degrees % 360 = 180 -> 0
    [] degrees % 360 = 270 -> -1

\* fault: the inverse turns the same way as the forward transform
worldToLocalSameTurn(point, transform) ==
  LET x == point.x - transform.x
      y == point.y - transform.y
      cos == CosDeg(transform.rotation)
      sin == SinDeg(transform.rotation)
      rx == IF transform.rotation # 0 THEN x * cos - y * sin ELSE x
      ry == IF transform.rotation # 0 THEN x * sin + y * cos ELSE y
  IN Pt(IF transform.scaleX # 0 THEN rx \div transform.scaleX ELSE rx,
        IF transform.scaleY # 0 THEN ry \div transform.scaleY ELSE ry)

localToWorld(point, transform) ==
  LET x == point.x * transform.scaleX
      y == point.y * transform.scaleY
      cos == CosDeg(transform.rotation)
      sin == SinDeg(transform.rotation)
      rx == IF transform.rotation # 0 THEN x * cos - y * sin ELSE x
      ry == IF transform.rotation # 0 THEN x * sin + y * cos ELSE y
  IN Pt(rx + transform.x, ry + transform.y)

worldToLocal(point, transform) ==
  LET x == point.x - transform.x
      y == point.y - transform.y
      cos == CosDeg(-transform.rotation)
      sin == SinDeg(-transform.rotation)
      rx == IF transform.rotation # 0 THEN x * cos - y * sin ELSE x
      ry == IF transform.rotation # 0 THEN x * sin + y * cos ELSE y
  IN Pt(IF transform.scaleX # 0 THEN rx \div transform.scaleX ELSE rx,
        IF transform.scaleY # 0 THEN ry \div transform.scaleY ELSE ry)

SetMin(S) == CHOOSE m \in S : \A n \in S : m <= n

SetMax(S) == CHOOSE m \in S : \A n \in S : m >= n

transformBounds(bounds, transform) ==
  LET corners == {localToWorld(Pt(bounds.x, bounds.y), transform),
                  localToWorld(Pt(bounds.x + bounds.width, bounds.y), transform),
                  localToWorld(Pt(bounds.x + bounds.width, bounds.y + bounds.height), transform),
                  localToWorld(Pt(bounds.x, bounds.y + bounds.height), transform)}
      xs == {p.x : p \in corners}
      ys == {p.y : p \in corners}
  IN Box(SetMin(xs), SetMin(ys), SetMax(xs) - SetMin(xs), SetMax(ys) - SetMin(ys))

mergeBounds(boxes) ==
  IF Len(boxes) = 0 THEN Box(0, 0, 0, 0)
  ELSE LET idx == 1..Len(boxes)
           minX == SetMin({boxes[i].x : i \in idx})
           minY == SetMin({boxes[i].y : i \in idx})
           maxX == SetMax({boxes[i].x + boxes[i].width : i \in idx})
           maxY == SetMax({boxes[i].y + boxes[i].height : i \in idx})
       IN Box(minX, minY, maxX - minX, maxY - minY)

\* the coordinates a segment contributes to the path bounds
SegXs(seg) == IF seg.type = "C" THEN {seg.cp1x, seg.cp2x, seg.x} ELSE {seg.x}

SegYs(seg) == IF seg.type = "C" THEN {seg.cp1y, seg.cp2y, seg.y} ELSE {seg.y}

getPathBounds(segments) ==
  IF Len(segments) = 0 THEN Box(0, 0, 0, 0)
  ELSE LET xs == UNION {SegXs(segments[i]) : i \in 1..Len(segments)}
           ys == UNION {SegYs(segments[i]) : i \in 1..Len(segments)}
       IN Box(SetMin(xs), SetMin(ys), SetMax(xs) - SetMin(xs), SetMax(ys) - SetMin(ys))

\* obj.content.length * obj.fontSize * 0.6
approxTextWidth(obj) == (Len(obj.content) * obj.fontSize * 6) \div 10

\* obj.fontSize * obj.lineHeight, the line height being kept in tenths
approxTextHeight(obj) == (obj.fontSize * obj.lineHeight) \div 10

RECURSIVE getLocalBounds(_), getWorldBounds(_)
getLocalBounds(obj) ==
  CASE obj.type = "rectangle" -> Box(0, 0, obj.width, obj.height)
    [] obj.type = "ellipse" -> Box(-obj.radiusX, -obj.radiusY, obj.radiusX * 2, obj.radiusY * 2)
    [] obj.type = "line" -> Box(Min(0, obj.endX), Min(0, obj.endY), Abs(obj.endX), Abs(obj.endY))
    [] obj.type = "polygon" -> Box(-obj.radius, -obj.radius, obj.radius * 2, obj.radius * 2)
    [] obj.type = "path" -> getPathBounds(obj.segments)
    [] obj.type = "text" -> Box(0, 0, approxTextWidth(obj), approxTextHeight(obj))
    [] obj.type = "group" ->
         IF Len(obj.children) = 0 THEN Box(0, 0, 0, 0)
         ELSE mergeBounds([i \in 1..Len(obj.children) |-> getWorldBounds(obj.children[i])])

getWorldBounds(obj) == transformBounds(getLocalBounds(obj), obj.transform)

\* ------------------------------------------------------------------------
\* Hit-tester (lib/vector/hitTest)
\* ------------------------------------------------------------------------

\* fault: the right and bottom edges are left out
hitTestRectangleOpen(local, width, height) ==
  local.x >= 0 /\ local.x < width /\ local.y >= 0 /\ local.y < height

hitTestRectangle(local, width, height) ==
  local.x >= 0 /\ local.x <= width /\ local.y >= 0 /\ local.y <= height

\* (x/rx)^2 + (y/ry)^2 <= 1, cross-multiplied
hitTestEllipse(local, radiusX, radiusY) ==
  IF radiusX = 0 \/ radiusY = 0 THEN FALSE
  ELSE local.x * local.x * radiusY * radiusY + local.y * local.y * radiusX * radiusX
         <= radiusX * radiusX * radiusY * radiusY

\* distance from p to the segment a-b is at most tol (projection clamped to the segment)
NearSegment(p, a, b, tol) ==
  LET dx == b.x - a.x
      dy == b.y - a.y
      lx == p.x - a.x
      ly == p.y - a.y
      lenSq == dx * dx + dy * dy
      dot == lx * dx + ly * dy
      cross == lx * dy - ly * dx
  IN IF lenSq = 0 \/ dot <= 0 THEN HypotSq(lx, ly) <= tol * tol
     ELSE IF dot >= lenSq THEN HypotSq(p.x - b.x, p.y - b.y) <= tol * tol
     ELSE cross * cross <= tol * tol * lenSq

\* the on-curve points of a path, in order
PathVertices(segments) == [i \in 1..Len(segments) |-> Pt(segments[i].x, segments[i].y)]

\* host surface isPointInStroke: within half the line width of the outline
\* (each curve taken by its chord)
isPointInStroke(local, segments, lineWidth) ==
  LET v == PathVertices(segments)
  IN \E i \in 1..(Len(v) - 1) : NearSegment(local, v[i], v[i + 1], lineWidth \div 2)

\* host surface isPointInPath: even-odd crossing count over the implicitly closed outline
isPointInPath(local, segments) ==
  LET v == PathVertices(segments)
      n == Len(v)
      nxt(i) == IF i = n THEN 1 ELSE i + 1
      crosses(i) ==
        LET a == v[i]
            b == v[nxt(i)]
        IN /\ (a.y > local.y) # (b.y > local.y)
           /\ IF b.y > a.y
              THEN (local.x - a.x) * (b.y - a.y) < (local.y - a.y) * (b.x - a.x)
              ELSE (local.x - a.x) * (b.y - a.y) > (local.y - a.y) * (b.x - a.x)
  IN Cardinality({i \in 1..n : crosses(i)}) % 2 = 1

hitTestPath(local, obj) ==
  LET inFill == IF obj.fill # NoFill THEN isPointInPath(local, obj.segments) ELSE FALSE
      inStroke == isPointInStroke(local, obj.segments, Px(PATH_HIT_WIDTH))
  IN inFill \/ inStroke

\* distance to the segment (0,0) - (endX, endY) within the tolerance
hitTestLine(local, endX, endY) ==
  NearSegment(local, Pt(0, 0), Pt(endX, endY), Px(LINE_HIT_TOLERANCE))

\* Math.hypot(local.x, local.y) <= radius
hitTestPolygon(local, sides, radius) ==
  radius >= 0 /\ HypotSq(local.x, local.y) <= radius * radius

hitTestText(local, approxWidth, approxHeight) ==
  local.x >= 0 /\ local.x <= approxWidth /\ local.y >= 0 /\ local.y <= approxHeight

RECURSIVE hitTestObject(_, _)
hitTestObject(worldPoint, obj) ==
  LET local == worldToLocal(worldPoint, obj.transform)
  IN CASE obj.type = "rectangle" -> hitTestRectangle(local, obj.width, obj.height)
       [] obj.type = "ellipse" -> hitTestEllipse(local, obj.radiusX, obj.radiusY)
       [] obj.type = "line" -> hitTestLine(local, obj.endX, obj.endY)
       [] obj.type = "polygon" -> hitTestPolygon(local, obj.sides, obj.radius)
       [] obj.type = "path" -> hitTestPath(local, obj)
       [] obj.type = "text" -> hitTestText(local, approxTextWidth(obj), approxTextHeight(obj))
       [] obj.type = "group" ->
            \E i \in 1..Len(obj.children) : hitTestObject(local, obj.children[i])

\* the loop of hitTestObjects from index i down to 1; result is <<>> (null) or
\* <<[object, layerId]>>
RECURSIVE hitTestObjectsFrom(_, _, _, _)
hitTestObjectsFrom(point, objects, layerId, i) ==
  IF i < 1 THEN <<>>
  ELSE IF ~objects[i].visible \/ objects[i].locked
       THEN hitTestObjectsFrom(point, objects, layerId, i - 1)
       ELSE IF hitTestObject(point, objects[i])
            THEN <<[object |-> objects[i], layerId |-> layerId]>>
            ELSE hitTestObjectsFrom(point, objects, layerId, i - 1)

\* the loop of hitTestObjectsBottomUp from index i up to the last
RECURSIVE hitTestObjectsUpFrom(_, _, _, _)
hitTestObjectsUpFrom(point, objects, layerId, i) ==
  IF i > Len(objects) THEN <<>>
  ELSE IF objects[i].visible /\ ~objects[i].locked /\ hitTestObject(point, objects[i])
       THEN <<[object |-> objects[i], layerId |-> layerId]>>
       ELSE hitTestObjectsUpFrom(point, objects, layerId, i + 1)

\* fault: the objects are walked bottom-to-top (first rendered wins)
hitTestObjectsBottomUp(point, objects, layerId) ==
  hitTestObjectsUpFrom(point, objects, layerId, 1)

\* walk objects top-to-bottom (last rendered = on top)
hitTestObjects(point, objects, layerId) ==
  hitTestObjectsFrom(point, objects, layerId, Len(objects))

\* the loop of hitTestLayers from index i down to 1
RECURSIVE hitTestLayersFrom(_, _, _)
hitTestLayersFrom(point, ls, i) ==
  IF i < 1 THEN <<>>
  ELSE IF ~ls[i].visible \/ ls[i].locked
       THEN hitTestLayersFrom(point, ls, i - 1)
       ELSE LET result == hitTestObjects(point, ls[i].objects, ls[i].id)
            IN IF result # <<>> THEN result
               ELSE hitTestLayersFrom(point, ls, i - 1)

\* walk layers top-to-bottom
hitTestLayers(point, ls) == hitTestLayersFrom(point, ls, Len(ls))

\* ------------------------------------------------------------------------
\* Renderer (lib/vector/renderer): the calls a canvas context receives
\* ------------------------------------------------------------------------

RECURSIVE Flatten(_)
Flatten(lists) == IF Len(lists) = 0 THEN <<>> ELSE lists[1] \o Flatten(Tail(lists))

\* ctx.globalAlpha *= opacity, the alpha kept as a fraction
timesOpacity(alpha, opacity) == [num |-> alpha.num * opacity, den |-> alpha.den * FullOpacity]

\* fault: a child is painted with its own opacity only, the opacity of its group is lost
RECURSIVE renderObjectFlatAlpha(_, _)
renderObjectFlatAlpha(obj, alpha) ==
  IF ~obj.visible THEN <<>>
  ELSE LET own == timesOpacity(alpha, obj.opacity)
           passed == timesOpacity(alpha, FullOpacity)
       IN <<[op |-> "save"]>>
          \o (IF obj.type = "group"
              THEN Flatten([i \in 1..Len(obj.children) |->
                     renderObjectFlatAlpha(obj.children[i], passed)])
              ELSE <<[op |-> "paint", objectId |-> obj.id, alpha |-> own]>>)
          \o <<[op |-> "restore"]>>

renderSceneFlatAlpha(ls) ==
  <<[op |-> "clearRect"]>>
  \o Flatten([i \in 1..Len(ls) |->
        IF ~ls[i].visible THEN <<>>
        ELSE <<[op |-> "save"]>>
             \o Flatten([j \in 1..Len(ls[i].objects) |->
                   renderObjectFlatAlpha(ls[i].objects[j],
                                         [num |-> ls[i].opacity, den |-> FullOpacity])])
             \o <<[op |-> "restore"]>>])

\* the shape renderers (renderRectangle .. renderText) count as one paint call
RECURSIVE renderObject(_, _)
renderObject(obj, alpha) ==
  IF ~obj.visible THEN <<>>
  ELSE LET own == timesOpacity(alpha, obj.opacity)
       IN <<[op |-> "save"]>>
          \o (IF obj.type = "group"
              THEN Flatten([i \in 1..Len(obj.children) |-> renderObject(obj.children[i], own)])
              ELSE <<[op |-> "paint", objectId |-> obj.id, alpha |-> own]>>)
          \o <<[op |-> "restore"]>>

\* renderScene(ctx, layers, width, height) as VectorCanvas calls it, without grid options
renderScene(ls) ==
  <<[op |-> "clearRect"]>>
  \o Flatten([i \in 1..Len(ls) |->
        IF ~ls[i].visible THEN <<>>
        ELSE <<[op |-> "save"]>>
             \o Flatten([j \in 1..Len(ls[i].objects) |->
                   renderObject(ls[i].objects[j], [num |-> ls[i].opacity, den |-> FullOpacity])])
             \o <<[op |-> "restore"]>>])

getLocalBoundsForSelection(obj) ==
  CASE obj.type = "rectangle" -> Box(0, 0, obj.width, obj.height)
    [] obj.type = "ellipse" -> Box(-obj.radiusX, -obj.radiusY, obj.radiusX * 2, obj.radiusY * 2)
    [] obj.type = "line" -> Box(Min(0, obj.endX), Min(0, obj.endY), Abs(obj.endX), Abs(obj.endY))
    [] obj.type = "polygon" -> Box(-obj.radius, -obj.radius, obj.radius * 2, obj.radius * 2)
    [] obj.type = "path" ->
         IF Len(obj.segments) = 0 THEN Box(0, 0, 0, 0)
         ELSE LET xs == {obj.segments[i].x : i \in 1..Len(obj.segments)}
                  ys == {obj.segments[i].y : i \in 1..Len(obj.segments)}
              IN Box(SetMin(xs), SetMin(ys), SetMax(xs) - SetMin(xs), SetMax(ys) - SetMin(ys))
    [] obj.type = "text" -> Box(0, 0, approxTextWidth(obj), approxTextHeight(obj))
    [] obj.type = "group" -> Box(0, 0, 0, 0)

\* the eight points, top-left first and clockwise
getHandlePositions(bounds) ==
  LET cx == bounds.x + bounds.width \div 2
      cy == bounds.y + bounds.height \div 2
      r == bounds.x + bounds.width
      b == bounds.y + bounds.height
  IN <<Pt(bounds.x, bounds.y), Pt(cx, bounds.y), Pt(r, bounds.y), Pt(r, cy),
       Pt(r, b), Pt(cx, b), Pt(bounds.x, b), Pt(bounds.x, cy)>>

\* a point under the context's transform: ctm lists the transforms applied by
\* applyTransform since the identity, outermost first
RECURSIVE ToSurface(_, _)
ToSurface(point, ctm) ==
  IF Len(ctm) = 0 THEN point
  ELSE ToSurface(localToWorld(point, ctm[Len(ctm)]), SubSeq(ctm, 1, Len(ctm) - 1))

RECURSIVE renderSelectionForObject(_, _, _)
renderSelectionForObject(obj, selectedSet, ctm) ==
  IF ~obj.visible THEN <<>>
  ELSE LET inner == Append(ctm, obj.transform)
           children ==
             IF obj.type # "group" THEN <<>>
             ELSE <<[op |-> "save"]>>
                  \o Flatten([i \in 1..Len(obj.children) |->
                        renderSelectionForObject(obj.children[i], selectedSet, inner)])
                  \o <<[op |-> "restore"]>>
           bounds == getLocalBoundsForSelection(obj)
           handles == getHandlePositions(bounds)
           handle(i) ==
             <<[op |-> "fillRect", role |-> "handle", center |-> ToSurface(handles[i], inner),
                size |-> Px(HANDLE_SIZE)],
               [op |-> "strokeRect", role |-> "handle", center |-> ToSurface(handles[i], inner),
                size |-> Px(HANDLE_SIZE)]>>
       IN children
          \o (IF obj.id \notin selectedSet THEN <<>>
              ELSE <<[op |-> "save"],
                     [op |-> "strokeRect", role |-> "outline", objectId |-> obj.id,
                      bounds |-> bounds, ctm |-> inner]>>
                   \o Flatten([i \in 1..8 |-> handle(i)])
                   \o <<[op |-> "restore"]>>)

renderSelectionOverlay(ls, selectedIds) ==
  <<[op |-> "clearRect"]>>
  \o (IF Len(selectedIds) = 0 THEN <<>>
      ELSE LET selectedSet == {selectedIds[i] : i \in 1..Len(selectedIds)}
           IN Flatten([i \in 1..Len(ls) |->
                IF ~ls[i].visible THEN <<>>
                ELSE Flatten([j \in 1..Len(ls[i].objects) |->
                       renderSelectionForObject(ls[i].objects[j], selectedSet, <<>>)])]))

\* ------------------------------------------------------------------------
\* Document store (store/documentStore): pure state transformers
\* ------------------------------------------------------------------------

MapLayers(ls, F(_)) == [i \in 1..Len(ls) |-> F(ls[i])]

\* fault: the new object goes to the front of the list (unshift for push)
addObjectFirst(ls, layerId, object) ==
  MapLayers(ls, LAMBDA layer :
    IF layer.id # layerId THEN layer
    ELSE [layer EXCEPT !.objects = <<object>> \o @])

\* fault: an object for a layer that does not exist goes to the topmost layer
addObjectFallback(ls, layerId, object) ==
  LET target == IF \E i \in 1..Len(ls) : ls[i].id = layerId THEN layerId
                ELSE ls[Len(ls)].id
  IN MapLayers(ls, LAMBDA layer :
       IF layer.id # target THEN layer
       ELSE [layer EXCEPT !.objects = Append(@, object)])

addObject(ls, layerId, object) ==
  MapLayers(ls, LAMBDA layer :
    IF layer.id # layerId THEN layer
    ELSE [layer EXCEPT !.objects = Append(@, object)])

removeObjectLayers(ls, objectId) ==
  MapLayers(ls, LAMBDA layer :
    [layer EXCEPT !.objects = SelectSeq(@, LAMBDA o : o.id # objectId)])

removeObjectSelection(selection, objectId) ==
  SelectSeq(selection, LAMBDA id : id # objectId)

updateObject(ls, objectId, updates) ==
  MapLayers(ls, LAMBDA layer :
    [layer EXCEPT !.objects =
       [j \in 1..Len(@) |-> IF @[j].id = objectId THEN Merge(@[j], updates) ELSE @[j]]])

\* store.reorderObject(layerId, fromIndex, toIndex)
reorderObject(ls, layerId, fromIndex, toIndex) ==
  MapLayers(ls, LAMBDA layer :
    IF layer.id # layerId THEN layer
    ELSE [layer EXCEPT !.objects = MoveElement(@, fromIndex, toIndex)])

\* store.reorderLayer(fromIndex, toIndex)
reorderLayer(ls, fromIndex, toIndex) == MoveElement(ls, fromIndex, toIndex)

selectObject(selection, objectId, addToSelection) ==
  IF addToSelection
  THEN IF Includes(selection, objectId)
       THEN SelectSeq(selection, LAMBDA id : id # objectId)
       ELSE Append(selection, objectId)
  ELSE <<objectId>>

\* all top-level objects of a layer list, in layer order
RECURSIVE AllObjects(_)
AllObjects(ls) ==
  IF Len(ls) = 0 THEN <<>> ELSE ls[1].objects \o AllObjects(Tail(ls))

\* <<>> (undefined) or <<object>>: the first object of the list, or of the children of
\* a group of the list, with this id
RECURSIVE findObjectInList(_, _)
findObjectInList(objects, objectId) ==
  IF Len(objects) = 0 THEN <<>>
  ELSE LET obj == objects[1]
           found == IF obj.type = "group" THEN findObjectInList(obj.children, objectId)
                    ELSE <<>>
       IN IF obj.id = objectId THEN <<obj>>
          ELSE IF found # <<>> THEN found
          ELSE findObjectInList(Tail(objects), objectId)

\* <<>> (undefined) or <<object>>
getObject(ls, objectId) == findObjectInList(AllObjects(ls), objectId)

\* <<>> (undefined) or <<layer id>>
getObjectLayerId(ls, objectId) ==
  LET found == {i \in 1..Len(ls) : findObjectInList(ls[i].objects, objectId) # <<>>}
  IN IF found = {} THEN <<>> ELSE <<ls[SetMin(found)].id>>

\* <<>> (undefined) or <<layer>>
getActiveLayer(ls, activeId) ==
  LET found == {i \in 1..Len(ls) : ls[i].id = activeId}
  IN IF found = {} THEN <<>> ELSE <<ls[SetMin(found)]>>

getSelectedObjects(ls, selection) ==
  IF Len(selection) = 0 THEN <<>>
  ELSE SelectSeq(AllObjects(ls), LAMBDA o : Includes(selection, o.id))

\* ---- history ----

\* fault: the entries after the cursor are kept (no slice before the push)
pushHistoryKeepRedo(h, idx, entryId, description, operations) ==
  IF Len(operations) = 0 THEN [history |-> h, historyIndex |-> idx]
  ELSE LET entry == [id |-> entryId, operations |-> operations, description |-> description]
           newHistory == Append(h, entry)
       IN IF Len(newHistory) > MaxHistoryLength
          THEN [history |-> Tail(newHistory), historyIndex |-> Len(newHistory) - 2]
          ELSE [history |-> newHistory, historyIndex |-> Len(newHistory) - 1]

\* fault: the newest entry is dropped at capacity (pop for shift)
pushHistoryDropNewest(h, idx, entryId, description, operations) ==
  IF Len(operations) = 0 THEN [history |-> h, historyIndex |-> idx]
  ELSE LET entry == [id |-> entryId, operations |-> operations, description |-> description]
           newHistory == Append(SubSeq(h, 1, idx + 1), entry)
       IN IF Len(newHistory) > MaxHistoryLength
          THEN [history |-> SubSeq(newHistory, 1, Len(newHistory) - 1),
                historyIndex |-> Len(newHistory) - 2]
          ELSE [history |-> newHistory, historyIndex |-> Len(newHistory) - 1]

\* fault: an entry is recorded even when it has no operations
pushHistoryEmptyEntries(h, idx, entryId, description, operations) ==
  LET entry == [id |-> entryId, operations |-> operations, description |-> description]
      newHistory == Append(SubSeq(h, 1, idx + 1), entry)
  IN IF Len(newHistory) > MaxHistoryLength
     THEN [history |-> Tail(newHistory), historyIndex |-> Len(newHistory) - 2]
     ELSE [history |-> newHistory, historyIndex |-> Len(newHistory) - 1]

\* result of pushHistory: the new list and cursor
pushHistory(h, idx, entryId, description, operations) ==
  IF Len(operations) = 0 THEN [history |-> h, historyIndex |-> idx]
  ELSE LET entry == [id |-> entryId, operations |-> operations, description |-> description]
           newHistory == Append(SubSeq(h, 1, idx + 1), entry)
       IN IF Len(newHistory) > MaxHistoryLength
          THEN [history |-> Tail(newHistory), historyIndex |-> Len(newHistory) - 2]
          ELSE [history |-> newHistory, historyIndex |-> Len(newHistory) - 1]

\* fault: undoing a modification restores nothing (after for before)
applyOperationReverseKeepsAfter(ls, op) ==
  CASE op.type = "add-object" ->
         MapLayers(ls, LAMBDA layer :
           IF layer.id = op.layerId
           THEN [layer EXCEPT !.objects = SelectSeq(@, LAMBDA o : o.id # op.object.id)]
           ELSE layer)
    [] op.type = "remove-object" ->
         MapLayers(ls, LAMBDA layer :
           IF layer.id # op.layerId THEN layer
           ELSE [layer EXCEPT !.objects = SpliceInsert(@, op.index, op.object)])
    [] op.type = "modify-object" ->
         MapLayers(ls, LAMBDA layer :
           IF layer.id = op.layerId
           THEN [layer EXCEPT !.objects =
                   [j \in 1..Len(@) |->
                      IF @[j].id = op.objectId THEN Merge(@[j], op.after) ELSE @[j]]]
           ELSE layer)

applyOperationReverse(ls, op) ==
  CASE op.type = "add-object" ->
         MapLayers(ls, LAMBDA layer :
           IF layer.id = op.layerId
           THEN [layer EXCEPT !.objects = SelectSeq(@, LAMBDA o : o.id # op.object.id)]
           ELSE layer)
    [] op.type = "remove-object" ->
         MapLayers(ls, LAMBDA layer :
           IF layer.id # op.layerId THEN layer
           ELSE [layer EXCEPT !.objects = SpliceInsert(@, op.index, op.object)])
    [] op.type = "modify-object" ->
         MapLayers(ls, LAMBDA layer :
           IF layer.id = op.layerId
           THEN [layer EXCEPT !.objects =
                   [j \in 1..Len(@) |->
                      IF @[j].id = op.objectId THEN Merge(@[j], op.before) ELSE @[j]]]
           ELSE layer)
    [] op.type = "reorder-object" ->
         MapLayers(ls, LAMBDA layer :
           IF layer.id # op.layerId THEN layer
           ELSE [layer EXCEPT !.objects = MoveElement(@, op.toIndex, op.fromIndex)])

applyOperationForward(ls, op) ==
  CASE op.type = "add-object" ->
         MapLayers(ls, LAMBDA layer :
           IF layer.id # op.layerId THEN layer
           ELSE [layer EXCEPT !.objects = SpliceInsert(@, op.index, op.object)])
    [] op.type = "remove-object" ->
         MapLayers(ls, LAMBDA layer :
           IF layer.id = op.layerId
           THEN [layer EXCEPT !.objects = SelectSeq(@, LAMBDA o : o.id # op.object.id)]
           ELSE layer)
    [] op.type = "modify-object" ->
         MapLayers(ls, LAMBDA layer :
           IF layer.id = op.layerId
           THEN [layer EXCEPT !.objects =
                   [j \in 1..Len(@) |->
                      IF @[j].id = op.objectId THEN Merge(@[j], op.after) ELSE @[j]]]
           ELSE layer)
    [] op.type = "reorder-object" ->
         MapLayers(ls, LAMBDA layer :
           IF layer.id # op.layerId THEN layer
           ELSE [layer EXCEPT !.objects = MoveElement(@, op.fromIndex, op.toIndex)])

RECURSIVE applyOperationsReverse(_, _)
applyOperationsReverse(ls, operations) ==
  IF Len(operations) = 0 THEN ls
  ELSE applyOperationsReverse(applyOperationReverse(ls, operations[Len(operations)]),
                              SubSeq(operations, 1, Len(operations) - 1))

RECURSIVE applyOperationsForward(_, _)
applyOperationsForward(ls, operations) ==
  IF Len(operations) = 0 THEN ls
  ELSE applyOperationsForward(applyOperationForward(ls, operations[1]), Tail(operations))

\* fault: the first entry is treated as not undoable
canUndoAfterFirst(h, idx) == idx > 0

canUndo(h, idx) == idx >= 0

canRedo(h, idx) == idx < Len(h) - 1

\* result of undo: the new layers and cursor
undo(ls, h, idx) ==
  IF idx < 0 THEN [layers |-> ls, historyIndex |-> idx]
  ELSE [layers |-> applyOperationsReverse(ls, h[idx + 1].operations), historyIndex |-> idx - 1]

\* result of redo: the new layers and cursor
redo(ls, h, idx) ==
  IF idx >= Len(h) - 1 THEN [layers |-> ls, historyIndex |-> idx]
  ELSE [layers |-> applyOperationsForward(ls, h[idx + 2].operations), historyIndex |-> idx + 1]

\* ------------------------------------------------------------------------
\* Selection tool helpers (hooks/useSelectionTool)
\* ------------------------------------------------------------------------

EmptyMap == <<>>

freshState ==
  [mode |-> "idle", startPoint |-> Pt(0, 0), hitObjectId |-> NoId, handleId |-> "null",
   shiftHeld |-> FALSE, origTransforms |-> EmptyMap, origProps |-> EmptyMap,
   origBounds |-> <<>>]

extractResizeProps(obj) ==
  CASE obj.type = "rectangle" ->
         [transform |-> obj.transform, width |-> obj.width, height |-> obj.height]
    [] obj.type = "ellipse" ->
         [transform |-> obj.transform, radiusX |-> obj.radiusX, radiusY |-> obj.radiusY]
    [] obj.type = "line" ->
         [transform |-> obj.transform, endX |-> obj.endX, endY |-> obj.endY]
    [] obj.type = "polygon" -> [transform |-> obj.transform, radius |-> obj.radius]
    [] OTHER -> [transform |-> obj.transform]

\* s with the snapshots of the currently selected objects
saveOriginals(s, ls, selection) ==
  LET selected == getSelectedObjects(ls, selection)
      ids == {selected[i].id : i \in 1..Len(selected)}
      objOf(id) == CHOOSE o \in {selected[i] : i \in 1..Len(selected)} : o.id = id
  IN [s EXCEPT
        !.origTransforms = [id \in ids |-> Pt(objOf(id).transform.x, objOf(id).transform.y)],
        !.origProps = [id \in ids |-> extractResizeProps(objOf(id))],
        !.origBounds = IF Len(selected) > 0
                       THEN <<mergeBounds([i \in 1..Len(selected) |-> getWorldBounds(selected[i])])>>
                       ELSE @]

HandleIds == <<"tl", "tc", "tr", "mr", "br", "bc", "bl", "ml">>

\* handle positions in doubled coordinates (the midpoints x + width/2 stay integral)
handlePositions(b) ==
  LET cx2 == 2 * b.x + b.width
      cy2 == 2 * b.y + b.height
      l2 == 2 * b.x
      t2 == 2 * b.y
      r2 == 2 * (b.x + b.width)
      b2 == 2 * (b.y + b.height)
  IN <<Pt(l2, t2), Pt(cx2, t2), Pt(r2, t2), Pt(r2, cy2),
       Pt(r2, b2), Pt(cx2, b2), Pt(l2, b2), Pt(l2, cy2)>>

\* fault: a handle is hit within the whole HANDLE_HIT_SIZE instead of half of it
hitTestHandlesWide(point, ls, selection) ==
  LET selected == getSelectedObjects(ls, selection)
      bounds == mergeBounds([i \in 1..Len(selected) |-> getWorldBounds(selected[i])])
      handles == handlePositions(bounds)
      near == {i \in 1..8 : /\ Abs(2 * point.x - handles[i].x) <= 2 * Px(HANDLE_HIT_SIZE)
                            /\ Abs(2 * point.y - handles[i].y) <= 2 * Px(HANDLE_HIT_SIZE)}
  IN IF Len(selected) = 0 \/ near = {} THEN "null" ELSE HandleIds[SetMin(near)]

\* "null" or the first handle within HANDLE_HIT_SIZE / 2 of the point
hitTestHandles(point, ls, selection) ==
  LET selected == getSelectedObjects(ls, selection)
      bounds == mergeBounds([i \in 1..Len(selected) |-> getWorldBounds(selected[i])])
      handles == handlePositions(bounds)
      near == {i \in 1..8 : /\ Abs(2 * point.x - handles[i].x) <= Px(HANDLE_HIT_SIZE)
                            /\ Abs(2 * point.y - handles[i].y) <= Px(HANDLE_HIT_SIZE)}
  IN IF Len(selected) = 0 \/ near = {} THEN "null" ELSE HandleIds[SetMin(near)]

\* fault: no minimum size is enforced on the new bounds
resizeBoundsUnclamped(ob, handleId, point) ==
  CASE handleId = "br" -> Box(ob.x, ob.y, point.x - ob.x, point.y - ob.y)
    [] handleId = "bl" -> Box(point.x, ob.y, ob.x + ob.width - point.x, point.y - ob.y)
    [] handleId = "tr" -> Box(ob.x, point.y, point.x - ob.x, ob.y + ob.height - point.y)
    [] handleId = "tl" -> Box(point.x, point.y, ob.x + ob.width - point.x,
                              ob.y + ob.height - point.y)
    [] handleId = "mr" -> Box(ob.x, ob.y, point.x - ob.x, ob.height)
    [] handleId = "ml" -> Box(point.x, ob.y, ob.x + ob.width - point.x, ob.height)
    [] handleId = "bc" -> Box(ob.x, ob.y, ob.width, point.y - ob.y)
    [] handleId = "tc" -> Box(ob.x, point.y, ob.width, ob.y + ob.height - point.y)

\* fault: the top-left handle resizes without moving the origin of the bounds
resizeBoundsAnchored(ob, handleId, point) ==
  LET raw ==
        CASE handleId = "br" -> Box(ob.x, ob.y, point.x - ob.x, point.y - ob.y)
          [] handleId = "bl" -> Box(point.x, ob.y, ob.x + ob.width - point.x, point.y - ob.y)
          [] handleId = "tr" -> Box(ob.x, point.y, point.x - ob.x, ob.y + ob.height - point.y)
          [] handleId = "tl" -> Box(ob.x, ob.y, ob.x + ob.width - point.x,
                                    ob.y + ob.height - point.y)
          [] handleId = "mr" -> Box(ob.x, ob.y, point.x - ob.x, ob.height)
          [] handleId = "ml" -> Box(point.x, ob.y, ob.x + ob.width - point.x, ob.height)
          [] handleId = "bc" -> Box(ob.x, ob.y, ob.width, point.y - ob.y)
          [] handleId = "tc" -> Box(ob.x, point.y, ob.width, ob.y + ob.height - point.y)
  IN [raw EXCEPT !.width = IF @ < Px(MIN_RESIZE) THEN Px(MIN_RESIZE) ELSE @,
                 !.height = IF @ < Px(MIN_RESIZE) THEN Px(MIN_RESIZE) ELSE @]

\* the new combined bounds for a handle dragged to point, minimum size enforced
resizeBounds(ob, handleId, point) ==
  LET raw ==
        CASE handleId = "br" -> Box(ob.x, ob.y, point.x - ob.x, point.y - ob.y)
          [] handleId = "bl" -> Box(point.x, ob.y, ob.x + ob.width - point.x, point.y - ob.y)
          [] handleId = "tr" -> Box(ob.x, point.y, point.x - ob.x, ob.y + ob.height - point.y)
          [] handleId = "tl" -> Box(point.x, point.y, ob.x + ob.width - point.x,
                                    ob.y + ob.height - point.y)
          [] handleId = "mr" -> Box(ob.x, ob.y, point.x - ob.x, ob.height)
          [] handleId = "ml" -> Box(point.x, ob.y, ob.x + ob.width - point.x, ob.height)
          [] handleId = "bc" -> Box(ob.x, ob.y, ob.width, point.y - ob.y)
          [] handleId = "tc" -> Box(ob.x, point.y, ob.width, ob.y + ob.height - point.y)
  IN [raw EXCEPT !.width = IF @ < Px(MIN_RESIZE) THEN Px(MIN_RESIZE) ELSE @,
                 !.height = IF @ < Px(MIN_RESIZE) THEN Px(MIN_RESIZE) ELSE @]

\* v * (num / den)
Scale(v, num, den) == (v * num) \div den

ScaleExact(v, num, den) == (v * num) % den = 0

\* fault: the end point of a line is left unscaled
resizeUpdatesFixedEnd(obj, origP, origT, ob, nb) ==
  LET sxN == IF ob.width > 0 THEN nb.width ELSE 1
      sxD == IF ob.width > 0 THEN ob.width ELSE 1
      syN == IF ob.height > 0 THEN nb.height ELSE 1
      syD == IF ob.height > 0 THEN ob.height ELSE 1
      newX == nb.x + Scale(origT.x - ob.x, sxN, sxD)
      newY == nb.y + Scale(origT.y - ob.y, syN, syD)
      base == [transform |-> [obj.transform EXCEPT !.x = newX, !.y = newY]]
  IN CASE obj.type = "rectangle" ->
            Merge(base, [width |-> Scale(origP.width, sxN, sxD),
                         height |-> Scale(origP.height, syN, syD)])
       [] obj.type = "ellipse" ->
            Merge(base, [radiusX |-> Scale(origP.radiusX, sxN, sxD),
                         radiusY |-> Scale(origP.radiusY, syN, syD)])
       [] OTHER -> base

\* the updates applyResize passes to updateObject for one object
resizeUpdates(obj, origP, origT, ob, nb) ==
  LET sxN == IF ob.width > 0 THEN nb.width ELSE 1
      sxD == IF ob.width > 0 THEN ob.width ELSE 1
      syN == IF ob.height > 0 THEN nb.height ELSE 1
      syD == IF ob.height > 0 THEN ob.height ELSE 1
      newX == nb.x + Scale(origT.x - ob.x, sxN, sxD)
      newY == nb.y + Scale(origT.y - ob.y, syN, syD)
      base == [transform |-> [obj.transform EXCEPT !.x = newX, !.y = newY]]
  IN CASE obj.type = "rectangle" ->
            Merge(base, [width |-> Scale(origP.width, sxN, sxD),
                         height |-> Scale(origP.height, syN, syD)])
       [] obj.type = "ellipse" ->
            Merge(base, [radiusX |-> Scale(origP.radiusX, sxN, sxD),
                         radiusY |-> Scale(origP.radiusY, syN, syD)])
       [] obj.type = "line" ->
            Merge(base, [endX |-> Scale(origP.endX, sxN, sxD),
                         endY |-> Scale(origP.endY, syN, syD)])
       [] obj.type = "polygon" ->
            \* Math.max(sx, sy)
            Merge(base, [radius |-> IF sxN * syD >= syN * sxD
                                    THEN Scale(origP.radius, sxN, sxD)
                                    ELSE Scale(origP.radius, syN, syD)])
       [] OTHER -> base

RECURSIVE resizeEach(_, _, _, _, _)
resizeEach(ls, ids, s, ob, nb) ==
  IF Len(ids) = 0 THEN ls
  ELSE LET id == ids[1]
           obj == getObject(ls, id)
           known == id \in DOMAIN s.origProps /\ id \in DOMAIN s.origTransforms
       IN resizeEach(IF known /\ obj # <<>>
                     THEN updateObject(ls, id,
                            resizeUpdates(obj[1], s.origProps[id], s.origTransforms[id], ob, nb))
                     ELSE ls,
                     Tail(ids), s, ob, nb)

\* layers after applyResize; ids is store.selectedObjectIds as read at handler entry
applyResize(s, ls, ids, point) ==
  IF s.origBounds = <<>> \/ s.handleId = "null" THEN ls
  ELSE resizeEach(ls, ids, s, s.origBounds[1], resizeBounds(s.origBounds[1], s.handleId, point))

\* the scale factors of this resize produce whole model units for every selected object
ResizeIsExact(s, ls, ids, point) ==
  s.origBounds = <<>> \/ s.handleId = "null" \/
  LET ob == s.origBounds[1]
      nb == resizeBounds(ob, s.handleId, point)
      sxN == IF ob.width > 0 THEN nb.width ELSE 1
      sxD == IF ob.width > 0 THEN ob.width ELSE 1
      syN == IF ob.height > 0 THEN nb.height ELSE 1
      syD == IF ob.height > 0 THEN ob.height ELSE 1
  IN \A i \in 1..Len(ids) :
       (ids[i] \in DOMAIN s.origProps /\ ids[i] \in DOMAIN s.origTransforms) =>
         LET p == s.origProps[ids[i]]
             t == s.origTransforms[ids[i]]
         IN /\ ScaleExact(t.x - ob.x, sxN, sxD)
            /\ ScaleExact(t.y - ob.y, syN, syD)
            /\ ("width" \in DOMAIN p => ScaleExact(p.width, sxN, sxD) /\ ScaleExact(p.height, syN, syD))
            /\ ("radiusX" \in DOMAIN p => ScaleExact(p.radiusX, sxN, sxD) /\ ScaleExact(p.radiusY, syN, syD))
            /\ ("endX" \in DOMAIN p => ScaleExact(p.endX, sxN, sxD) /\ ScaleExact(p.endY, syN, syD))
            /\ ("radius" \in DOMAIN p => ScaleExact(p.radius, sxN, sxD) /\ ScaleExact(p.radius, syN, syD))

RECURSIVE moveEach(_, _, _, _, _)
moveEach(ls, ids, origTransforms, dx, dy) ==
  IF Len(ids) = 0 THEN ls
  ELSE LET id == ids[1]
           obj == getObject(ls, id)
       IN moveEach(IF id \in DOMAIN origTransforms /\ obj # <<>>
                   THEN updateObject(ls, id,
                          [transform |-> [obj[1].transform EXCEPT
                                            !.x = origTransforms[id].x + dx,
                                            !.y = origTransforms[id].y + dy]])
                   ELSE ls,
                   Tail(ids), origTransforms, dx, dy)

RECURSIVE moveOps(_, _, _)
moveOps(ls, ids, origTransforms) ==
  IF Len(ids) = 0 THEN <<>>
  ELSE LET id == ids[1]
           obj == getObject(ls, id)
           layerId == getObjectLayerId(ls, id)
       IN (IF id \in DOMAIN origTransforms /\ obj # <<>> /\ layerId # <<>>
           THEN <<[type |-> "modify-object", objectId |-> id, layerId |-> layerId[1],
                   before |-> [transform |-> [obj[1].transform EXCEPT
                                                !.x = origTransforms[id].x,
                                                !.y = origTransforms[id].y]],
                   after |-> [transform |-> obj[1].transform]]>>
           ELSE <<>>) \o moveOps(ls, Tail(ids), origTransforms)

\* the operations commitMoveHistory collects
commitMoveHistory(s, ls, ids) == moveOps(ls, ids, s.origTransforms)

RECURSIVE resizeOps(_, _, _)
resizeOps(ls, ids, origProps) ==
  IF Len(ids) = 0 THEN <<>>
  ELSE LET id == ids[1]
           obj == getObject(ls, id)
           layerId == getObjectLayerId(ls, id)
       IN (IF id \in DOMAIN origProps /\ obj # <<>> /\ layerId # <<>>
           THEN <<[type |-> "modify-object", objectId |-> id, layerId |-> layerId[1],
                   before |-> origProps[id],
                   after |-> extractResizeProps(obj[1])]>>
           ELSE <<>>) \o resizeOps(ls, Tail(ids), origProps)

\* the operations commitResizeHistory collects
commitResizeHistory(s, ls, ids) == resizeOps(ls, ids, s.origProps)

rectFromPoints(a, b) ==
  Box(Min(a.x, b.x), Min(a.y, b.y), Abs(b.x - a.x), Abs(b.y - a.y))

boundsIntersect(a, b) ==
  /\ a.x < b.x + b.width
  /\ a.x + a.width > b.x
  /\ a.y < b.y + b.height
  /\ a.y + a.height > b.y

\* the selection selectInMarquee sets
selectInMarquee(s, endPoint, ls, selection) ==
  LET marquee == rectFromPoints(s.startPoint, endPoint)
      open == SelectSeq(ls, LAMBDA layer : layer.visible /\ ~layer.locked)
      objs == SelectSeq(AllObjects(open), LAMBDA o :
                o.visible /\ ~o.locked /\ boundsIntersect(marquee, getWorldBounds(o)))
      ids == [i \in 1..Len(objs) |-> objs[i].id]
  IN IF s.shiftHeld
     THEN selection \o SelectSeq(ids, LAMBDA id : ~Includes(selection, id))
     ELSE ids

\* ------------------------------------------------------------------------
\* Shape tool helpers (hooks/useShapeTool)
\* ------------------------------------------------------------------------

SHAPE_TOOLS == {"rectangle", "ellipse"}

constrainToSquare(start, end) ==
  LET dx == end.x - start.x
      dy == end.y - start.y
      size == Max(Abs(dx), Abs(dy))
  IN Pt(start.x + size * Sign(dx), start.y + size * Sign(dy))

computeBounds(s) ==
  LET start == s.startPoint
      end == IF s.shiftHeld THEN constrainToSquare(start, s.currentPoint) ELSE s.currentPoint
      dx == end.x - start.x
      dy == end.y - start.y
  IN IF s.altHeld
     THEN Box(start.x - Abs(dx), start.y - Abs(dy), Abs(dx) * 2, Abs(dy) * 2)
     ELSE Box(Min(start.x, end.x), Min(start.y, end.y), Abs(dx), Abs(dy))

createRectangle(s, id, fill) ==
  LET bounds == computeBounds(s)
  IN [id |-> id, type |-> "rectangle", transform |-> createTransform(bounds.x, bounds.y),
      fill |-> fill, visible |-> TRUE, locked |-> FALSE, opacity |-> FullOpacity,
      width |-> bounds.width, height |-> bounds.height]

createEllipseObj(s, id, fill) ==
  LET bounds == computeBounds(s)
  IN [id |-> id, type |-> "ellipse",
      transform |-> createTransform(bounds.x + bounds.width \div 2,
                                    bounds.y + bounds.height \div 2),
      fill |-> fill, visible |-> TRUE, locked |-> FALSE, opacity |-> FullOpacity,
      radiusX |-> bounds.width \div 2, radiusY |-> bounds.height \div 2]

createShapeObject(s, id, fill) ==
  CASE s.tool = "rectangle" -> createRectangle(s, id, fill)
    [] s.tool = "ellipse" -> createEllipseObj(s, id, fill)

\* ------------------------------------------------------------------------
\* Freehand tool helpers (hooks/useFreehandTool)
\* ------------------------------------------------------------------------

\* pts[i] with the 0-based index clamped as Math.max / Math.min do
At(pts, i) == pts[Min(Max(i, 0), Len(pts) - 1) + 1]

\* fault: the samples are joined by straight segments whatever their number
pointsToSmoothSegmentsPolyline(pts) ==
  [k \in 1..Len(pts) |->
     [type |-> IF k = 1 THEN "M" ELSE "L", x |-> pts[k].x, y |-> pts[k].y]]

pointsToSmoothSegments(pts) ==
  IF Len(pts) = 2
  THEN <<[type |-> "M", x |-> pts[1].x, y |-> pts[1].y],
         [type |-> "L", x |-> pts[2].x, y |-> pts[2].y]>>
  ELSE [k \in 1..Len(pts) |->
          IF k = 1 THEN [type |-> "M", x |-> pts[1].x, y |-> pts[1].y]
          ELSE LET i == k - 1
                   p0 == At(pts, i - 2)
                   p1 == At(pts, i - 1)
                   p2 == At(pts, i)
                   p3 == At(pts, i + 1)
               IN [type |-> "C",
                   cp1x |-> p1.x + (p2.x - p0.x) \div 6,
                   cp1y |-> p1.y + (p2.y - p0.y) \div 6,
                   cp2x |-> p2.x - (p3.x - p1.x) \div 6,
                   cp2y |-> p2.y - (p3.y - p1.y) \div 6,
                   x |-> p2.x, y |-> p2.y]]

createFreehandPath(origin, segments, id, fill) ==
  [id |-> id, type |-> "path", transform |-> createTransform(origin.x, origin.y),
   fill |-> fill, visible |-> TRUE, locked |-> FALSE, opacity |-> FullOpacity,
   segments |-> segments, closed |-> FALSE]

\* ------------------------------------------------------------------------
\* State
\* ------------------------------------------------------------------------

VARIABLES
  layers,              \* documentStore.layers
  activeLayerId,       \* documentStore.activeLayerId
  selectedObjectIds,   \* documentStore.selectedObjectIds
  history,             \* documentStore.history
  historyIndex,        \* documentStore.historyIndex
  activeTool,          \* canvasStore.activeTool
  pointerDownRef,      \* VectorCanvas pointerDownRef
  sel,                 \* useSelectionTool stateRef
  shape,               \* useShapeTool stateRef
  freehand,            \* useFreehandTool stateRef
  nextObjectId,        \* next id uuidv4() gives an object
  nextEntryId,         \* next id uuidv4() gives a history entry
  nextLayerId,         \* next id uuidv4() gives a layer
  pressed,             \* the host's pointer is down and captured by the event canvas
  storage,             \* localStorage item "openpaint-project" (see SaveProject)
  surface,             \* calls received by the main and the overlay canvas contexts
  nudge,               \* useKeyboardShortcuts nudgeBeforeRef and nudgeTimerRef
  obs                  \* observer of the current gesture (see ObsDown)

doc == <<layers, activeLayerId, selectedObjectIds, history, historyIndex>>

tools == <<sel, shape, freehand>>

idVars == <<nextObjectId, nextEntryId, nextLayerId>>

\* no nudge is waiting to be recorded (keys counts the arrow keys and the mid-gesture
\* tool shortcuts handled so far)
nudgeIdle == [beforeRef |-> <<>>, timerRef |-> FALSE, keys |-> 0]

\* both canvases before the first render
BlankSurface == [main |-> <<>>, overlay |-> <<>>]

vars == <<layers, activeLayerId, selectedObjectIds, history, historyIndex, activeTool,
          pointerDownRef, sel, shape, freehand, nextObjectId, nextEntryId, nextLayerId,
          pressed, storage, surface, nudge, obs>>

Tools == {"selection", "rectangle", "ellipse", "brush", "eraser", "fill"}

\* observer of the gesture in progress: the tool and the layers when the pointer went
\* and the selection when the pointer went down, where it went down, whether a
\* pointer-move was delivered since, whether the pointer has travelled past the drag
\* threshold, whether capture was lost
ObsIdle ==
  [tool |-> "null", downLayers |-> <<>>, downSelection |-> <<>>, downPoint |-> Pt(0, 0),
   moved |-> FALSE, far |-> FALSE, lost |-> FALSE, staleCall |-> "none"]

ObsDown(point) ==
  [tool |-> activeTool, downLayers |-> <<layers>>, downSelection |-> selectedObjectIds,
   downPoint |-> point, moved |-> FALSE, far |-> FALSE, lost |-> FALSE,
   staleCall |-> "none"]

\* the observer after a direct call of a store primitive: staleCall names the primitive
\* when the id it was given names nothing in the document
ObsCall(primitive, isStale) ==
  [obs EXCEPT !.staleCall = IF isStale THEN primitive ELSE "none"]

ObsMove(point) ==
  IF obs.downLayers = <<>> THEN obs
  ELSE [obs EXCEPT !.moved = TRUE,
                   !.far = @ \/ HypotSq(point.x - obs.downPoint.x, point.y - obs.downPoint.y)
                                  > Px(DRAG_THRESHOLD) * Px(DRAG_THRESHOLD)]

\* The fields of an inactive shape / freehand state are dead: every handler and preview
\* returns on !active and onPointerDown overwrites them all.  The model keeps one
\* representative (the initial values) for the inactive state.
shapeIdle ==
  [active |-> FALSE, startPoint |-> Pt(0, 0), currentPoint |-> Pt(0, 0),
   tool |-> "rectangle", shiftHeld |-> FALSE, altHeld |-> FALSE]

freehandIdle == [active |-> FALSE, points |-> <<>>]

Init ==
  /\ layers = <<createLayer(1)>>
  /\ activeLayerId = 1
  /\ selectedObjectIds = <<>>
  /\ history = <<>>
  /\ historyIndex = -1
  /\ activeTool = "brush"
  /\ pointerDownRef = FALSE
  /\ sel = freshState
  /\ shape = shapeIdle
  /\ freehand = freehandIdle
  /\ nextObjectId = 1
  /\ nextEntryId = 1
  /\ nextLayerId = 2
  /\ pressed = FALSE
  /\ storage = <<>>
  /\ surface = BlankSurface
  /\ nudge = nudgeIdle
  /\ obs = ObsIdle

\* documents a project file can hold: one layer with a rectangle that leaves part of
\* the canvas empty, or with a rectangle under the ellipse inscribed in it
LoadedSquare ==
  createRectangle([startPoint |-> Pt(Px(6), Px(6)), currentPoint |-> Pt(Px(12), Px(12)),
                   shiftHeld |-> FALSE, altHeld |-> FALSE], 1, "#000000")

LoadedRectangle ==
  createRectangle([startPoint |-> Pt(0, 0), currentPoint |-> Pt(Px(12), Px(12)),
                   shiftHeld |-> FALSE, altHeld |-> FALSE], 1, "#000000")

LoadedEllipse ==
  createEllipseObj([startPoint |-> Pt(0, 0), currentPoint |-> Pt(Px(12), Px(12)),
                    shiftHeld |-> FALSE, altHeld |-> FALSE], 2, "#000000")

LoadedDocuments ==
  {<<[createLayer(1) EXCEPT !.objects = objects]>>
     : objects \in {<<LoadedSquare>>, <<LoadedRectangle, LoadedEllipse>>}}

\* createDefaultLayers(), id being the uuid it draws
createDefaultLayers(id) == [layers |-> <<createLayer(id)>>, activeLayerId |-> id]

\* store.newDocument()
newDocument(id) ==
  LET defaults == createDefaultLayers(id)
  IN [layers |-> defaults.layers, activeLayerId |-> defaults.activeLayerId,
      selectedObjectIds |-> <<>>, history |-> <<>>, historyIndex |-> -1]

\* fault: the history and its cursor survive the load
loadDocumentKeepsHistory(ls, layerId) ==
  [layers |-> ls, activeLayerId |-> layerId, selectedObjectIds |-> <<>>,
   history |-> history, historyIndex |-> historyIndex]

deselectObject(selection, objectId) == SelectSeq(selection, LAMBDA id : id # objectId)

\* the selection after store.selectAll()
selectAll(ls, activeId, selection) ==
  LET activeLayer == getActiveLayer(ls, activeId)
      open == SelectSeq(activeLayer[1].objects, LAMBDA o : o.visible /\ ~o.locked)
  IN IF activeLayer = <<>> THEN selection
     ELSE [i \in 1..Len(open) |-> open[i].id]

\* store.addLayer(), id being the uuid it draws
addLayer(ls, id) == [layers |-> Append(ls, createLayer(id)), activeLayerId |-> id]

\* store.removeLayer(layerId): the layers, the active layer and the selection afterwards
removeLayer(ls, activeId, selection, layerId) ==
  IF Len(ls) <= 1
  THEN [layers |-> ls, activeLayerId |-> activeId, selectedObjectIds |-> selection]
  ELSE LET newLayers == SelectSeq(ls, LAMBDA l : l.id # layerId)
       IN [layers |-> newLayers,
           activeLayerId |-> IF activeId = layerId THEN newLayers[Len(newLayers)].id
                             ELSE activeId,
           selectedObjectIds |-> <<>>]

\* store.updateLayer(layerId, updates)
updateLayer(ls, layerId, updates) ==
  MapLayers(ls, LAMBDA l : IF l.id = layerId THEN Merge(l, updates) ELSE l)

\* String.prototype.startsWith on strings held as character lists
startsWith(str, prefix) ==
  Len(str) >= Len(prefix) /\ SubSeq(str, 1, Len(prefix)) = prefix

\* the projectData handleSave builds; name, dates and canvas size are never read back
\* by the document store
projectData(ls) == [version |-> <<<<"2", ".", "0", ".", "0">>>>, layers |-> <<ls>>]

\* JSON.stringify: the text is held as the value it denotes; the model's documents
\* contain finite numbers, strings, booleans, null, arrays and plain objects only, which
\* JSON.parse gives back unchanged
stringify(value) == [json |-> value]

parse(text) == text.json

\* store.loadDocument(layers, activeLayerId)
loadDocument(ls, layerId) ==
  [layers |-> ls, activeLayerId |-> layerId, selectedObjectIds |-> <<>>,
   history |-> <<>>, historyIndex |-> -1]

\* the state after page.tsx handleOpen loaded a project file, the selection tool chosen
InitLoaded ==
  \E data \in LoadedDocuments :
    LET d == loadDocument(data, data[1].id)
    IN /\ layers = d.layers
       /\ activeLayerId = d.activeLayerId
       /\ selectedObjectIds = d.selectedObjectIds
       /\ history = d.history
       /\ historyIndex = d.historyIndex
       /\ activeTool = "selection"
       /\ pointerDownRef = FALSE
       /\ sel = freshState
       /\ shape = shapeIdle
       /\ freehand = freehandIdle
       /\ nextObjectId = Len(data[1].objects) + 1
       /\ nextEntryId = 1
       /\ nextLayerId = 2
       /\ pressed = FALSE
       /\ storage = <<>>
       /\ surface = BlankSurface
       /\ nudge = nudgeIdle
       /\ obs = ObsIdle

\* the flags a stored layer or object can carry (VectorLayer / BaseVectorObject
\* visible and locked)
Flags == {"normal", "hidden", "locked"}

withFlag(item, flag) ==
  [item EXCEPT !.visible = flag # "hidden", !.locked = flag = "locked"]

\* the square of LoadedSquare as the third object of a file
LoadedTopSquare == [LoadedSquare EXCEPT !.id = 3]

\* a rectangle one pixel wide and high
LoadedPixel ==
  createRectangle([startPoint |-> Pt(0, 0), currentPoint |-> Pt(Px(1), Px(1)),
                   shiftHeld |-> FALSE, altHeld |-> FALSE], 1, "#000000")

\* the flags of the lower layer, its ellipse, the upper layer and its square
FlagChoices == [{"lower", "ellipse", "upper", "square"} -> Flags]

\* project files with two layers: a rectangle under its inscribed ellipse in the lower
\* layer and a square in the upper one, with layers and objects hidden or locked; and
\* files holding a single rectangle
PickDocuments ==
  {<<withFlag([createLayer(1) EXCEPT
                 !.objects = <<LoadedRectangle, withFlag(LoadedEllipse, f.ellipse)>>],
              f.lower),
     withFlag([createLayer(2) EXCEPT
                 !.objects = <<withFlag(LoadedTopSquare, f.square)>>], f.upper)>>
     : f \in FlagChoices}
  \cup {<<[createLayer(1) EXCEPT !.objects = <<object>>]>>
          : object \in {LoadedSquare, LoadedPixel}}

\* the state after page.tsx handleOpen loaded one of PickDocuments, the selection tool
\* chosen
InitPicking ==
  \E data \in PickDocuments :
    LET d == loadDocument(data, data[1].id)
    IN /\ layers = d.layers
       /\ activeLayerId = d.activeLayerId
       /\ selectedObjectIds = d.selectedObjectIds
       /\ history = d.history
       /\ historyIndex = d.historyIndex
       /\ activeTool = "selection"
       /\ pointerDownRef = FALSE
       /\ sel = freshState
       /\ shape = shapeIdle
       /\ freehand = freehandIdle
       /\ nextObjectId = Len(AllObjects(data)) + 1
       /\ nextEntryId = 1
       /\ nextLayerId = Len(data) + 1
       /\ pressed = FALSE
       /\ storage = <<>>
       /\ surface = BlankSurface
       /\ nudge = nudgeIdle
       /\ obs = ObsIdle

\* the host starts a new pointer gesture: no pointer is down, and the pointer stream
\* has not been cut before (the model follows one loss of capture to its end)
CanPress == ~pressed /\ ~obs.lost

\* store.pushHistory(description, operations) as a step of an action
Push(description, operations) ==
  LET r == pushHistory(history, historyIndex, nextEntryId, description, operations)
  IN /\ Len(operations) > 0 => nextEntryId <= MaxPushes
     /\ history' = r.history
     /\ historyIndex' = r.historyIndex
     /\ nextEntryId' = IF Len(operations) > 0 THEN nextEntryId + 1 ELSE nextEntryId

\* ------------------------------------------------------------------------
\* Pointer events (components/canvas/VectorCanvas): selection tool
\* ------------------------------------------------------------------------

\* handlePointerDown -> selectionTool.onPointerDown(point, shiftKey)
SelectionPointerDown(point, shiftKey) ==
  LET s0 == [sel EXCEPT !.startPoint = point, !.shiftHeld = shiftKey]
      handle == IF Len(selectedObjectIds) > 0
                THEN hitTestHandles(point, layers, selectedObjectIds) ELSE "null"
      hit == hitTestLayers(point, layers)
      hitId == hit[1].object.id
      selected == IF ~Includes(selectedObjectIds, hitId) /\ ~shiftKey
                  THEN selectObject(selectedObjectIds, hitId, FALSE)
                  ELSE selectedObjectIds
  IN /\ CanPress
     /\ activeTool = "selection"
     /\ pressed' = TRUE
     /\ pointerDownRef' = TRUE
     /\ obs' = ObsDown(point)
     /\ IF handle # "null"
        THEN /\ sel' = saveOriginals([s0 EXCEPT !.mode = "resizing", !.handleId = handle],
                                     layers, selectedObjectIds)
             /\ UNCHANGED selectedObjectIds
        ELSE IF hit # <<>>
        THEN /\ selectedObjectIds' = selected
             /\ sel' = saveOriginals([s0 EXCEPT !.hitObjectId = hitId, !.mode = "pending"],
                                     layers, selected)
        ELSE /\ sel' = [s0 EXCEPT !.hitObjectId = NoId, !.mode = "pending"]
             /\ UNCHANGED selectedObjectIds
     /\ UNCHANGED <<layers, activeLayerId, history, historyIndex, activeTool, storage, surface, nudge, shape,
                    freehand, idVars>>

\* handlePointerMove -> selectionTool.onPointerMove(point)
\* snapshot is store.selectedObjectIds as read at handler entry
SelectionPointerMove(point) ==
  LET snapshot == selectedObjectIds
      dx == point.x - sel.startPoint.x
      dy == point.y - sel.startPoint.y
      promote == sel.mode = "pending"
                 /\ HypotSq(dx, dy) > Px(DRAG_THRESHOLD) * Px(DRAG_THRESHOLD)
      toMoving == promote /\ sel.hitObjectId # NoId
      toMarquee == promote /\ sel.hitObjectId = NoId
      reselect == toMoving /\ ~Includes(snapshot, sel.hitObjectId)
      selected == IF reselect THEN selectObject(snapshot, sel.hitObjectId, FALSE)
                  ELSE IF toMarquee /\ ~sel.shiftHeld THEN <<>>
                  ELSE snapshot
      s1 == [sel EXCEPT !.mode = IF toMoving THEN "moving"
                                 ELSE IF toMarquee THEN "marquee" ELSE @]
      s2 == IF reselect THEN saveOriginals(s1, layers, selected) ELSE s1
  IN /\ pointerDownRef
     /\ activeTool = "selection"
     /\ s2.mode = "resizing" => ResizeIsExact(s2, layers, snapshot, point)
     /\ sel' = s2
     /\ selectedObjectIds' = selected
     /\ layers' = IF s2.mode = "moving"
                  THEN moveEach(layers, snapshot, s2.origTransforms, dx, dy)
                  ELSE IF s2.mode = "resizing"
                  THEN applyResize(s2, layers, snapshot, point)
                  ELSE layers
     /\ obs' = ObsMove(point)
     /\ UNCHANGED <<activeLayerId, history, historyIndex, activeTool, storage, surface, nudge, pointerDownRef, shape,
                    freehand, idVars, pressed>>

\* handlePointerUp -> selectionTool.onPointerUp(point)
SelectionPointerUp(point) ==
  LET ops == IF sel.mode = "moving" THEN commitMoveHistory(sel, layers, selectedObjectIds)
             ELSE IF sel.mode = "resizing"
             THEN commitResizeHistory(sel, layers, selectedObjectIds)
             ELSE <<>>
      description == IF sel.mode = "moving" THEN "Move objects" ELSE "Resize objects"
  IN /\ pressed
     /\ activeTool = "selection"
     /\ pressed' = FALSE
     /\ pointerDownRef' = FALSE
     /\ obs' = ObsIdle
     /\ selectedObjectIds' =
          CASE sel.mode = "pending" ->
                 IF sel.hitObjectId # NoId
                 THEN selectObject(selectedObjectIds, sel.hitObjectId, sel.shiftHeld)
                 ELSE <<>>
            [] sel.mode = "marquee" -> selectInMarquee(sel, point, layers, selectedObjectIds)
            [] OTHER -> selectedObjectIds
     /\ Push(description, ops)
     /\ sel' = freshState
     /\ UNCHANGED <<layers, activeLayerId, activeTool, storage, surface, nudge, shape, freehand, nextObjectId, nextLayerId>>

\* ------------------------------------------------------------------------
\* Pointer events: shape tools
\* ------------------------------------------------------------------------

\* handlePointerDown -> shapeTool.onPointerDown(point, activeTool)
ShapePointerDown(point) ==
  /\ CanPress
  /\ activeTool \in SHAPE_TOOLS
  /\ pressed' = TRUE
  /\ pointerDownRef' = TRUE
  /\ obs' = ObsDown(point)
  /\ shape' = [active |-> TRUE, startPoint |-> point, currentPoint |-> point,
               tool |-> activeTool, shiftHeld |-> FALSE, altHeld |-> FALSE]
  /\ UNCHANGED <<doc, activeTool, storage, surface, nudge, sel, freehand, idVars>>

\* handlePointerMove -> shapeTool.onPointerMove(point, shiftKey, altKey)
ShapePointerMove(point, shiftKey, altKey) ==
  /\ pointerDownRef
  /\ activeTool \in SHAPE_TOOLS
  /\ shape' = IF ~shape.active THEN shape
              ELSE [shape EXCEPT !.currentPoint = point, !.shiftHeld = shiftKey,
                                 !.altHeld = altKey]
  /\ obs' = ObsMove(point)
  /\ UNCHANGED <<doc, activeTool, storage, surface, nudge, pointerDownRef, sel, freehand, idVars, pressed>>

\* handlePointerUp -> shapeTool.onPointerUp(point); fill is the canvas store's fill setting
ShapePointerUp(point, fill) ==
  LET s == [shape EXCEPT !.currentPoint = point]
      tiny == HypotSq(point.x - s.startPoint.x, point.y - s.startPoint.y)
                < Px(SHAPE_MIN_DIST) * Px(SHAPE_MIN_DIST)
      obj == createShapeObject(s, nextObjectId, fill)
      layerId == activeLayerId
      active == getActiveLayer(layers, activeLayerId)
      index == IF active # <<>> THEN Len(active[1].objects) ELSE 0
  IN /\ pressed
     /\ activeTool \in SHAPE_TOOLS
     /\ pressed' = FALSE
     /\ pointerDownRef' = FALSE
     /\ obs' = ObsIdle
     /\ IF ~shape.active
        THEN UNCHANGED <<doc, shape, idVars>>
        ELSE IF tiny
        THEN /\ shape' = shapeIdle
             /\ UNCHANGED <<doc, idVars>>
        ELSE /\ nextObjectId <= MaxObjects
             /\ layers' = addObject(layers, layerId, obj)
             /\ selectedObjectIds' = <<obj.id>>
             /\ Push(IF obj.type = "rectangle" THEN "Create rectangle" ELSE "Create ellipse",
                  <<[type |-> "add-object", layerId |-> layerId,
                                        object |-> obj, index |-> index]>>)
             /\ nextObjectId' = nextObjectId + 1
             /\ shape' = shapeIdle
             /\ UNCHANGED <<activeLayerId, nextLayerId>>
     /\ UNCHANGED <<activeTool, storage, surface, nudge, sel, freehand>>

\* ------------------------------------------------------------------------
\* Pointer events: freehand (brush) tool
\* ------------------------------------------------------------------------

\* handlePointerDown -> freehandTool.onPointerDown(point)
BrushPointerDown(point) ==
  /\ CanPress
  /\ activeTool = "brush"
  /\ pressed' = TRUE
  /\ pointerDownRef' = TRUE
  /\ obs' = ObsDown(point)
  /\ freehand' = [active |-> TRUE, points |-> <<point>>]
  /\ UNCHANGED <<doc, activeTool, storage, surface, nudge, sel, shape, idVars>>

\* handlePointerMove -> freehandTool.onPointerMove(point), in a gesture followed up to
\* cap samples
BrushPointerMoveWithin(point, cap) ==
  LET last == freehand.points[Len(freehand.points)]
      sample == freehand.active
                /\ HypotSq(point.x - last.x, point.y - last.y)
                     >= Px(MIN_DISTANCE) * Px(MIN_DISTANCE)
  IN /\ pointerDownRef
     /\ activeTool = "brush"
     /\ sample => Len(freehand.points) < cap
     /\ freehand' = IF sample THEN [freehand EXCEPT !.points = Append(@, point)] ELSE freehand
     /\ obs' = ObsMove(point)
     /\ UNCHANGED <<doc, activeTool, storage, surface, nudge, pointerDownRef, sel, shape, idVars, pressed>>

BrushPointerMove(point) == BrushPointerMoveWithin(point, MaxSamples)

\* handlePointerUp -> freehandTool.onPointerUp(); fill is the canvas store's fill setting
BrushPointerUp(fill) ==
  LET pts == freehand.points
      origin == pts[1]
      relative == [i \in 1..Len(pts) |-> Pt(pts[i].x - origin.x, pts[i].y - origin.y)]
      pathObj == createFreehandPath(origin, pointsToSmoothSegments(relative),
                                    nextObjectId, fill)
      layerId == activeLayerId
      active == getActiveLayer(layers, activeLayerId)
      index == IF active # <<>> THEN Len(active[1].objects) ELSE 0
  IN /\ pressed
     /\ activeTool = "brush"
     /\ pressed' = FALSE
     /\ pointerDownRef' = FALSE
     /\ obs' = ObsIdle
     /\ IF ~freehand.active
        THEN UNCHANGED <<doc, freehand, idVars>>
        ELSE IF Len(pts) < 2
        THEN /\ freehand' = freehandIdle
             /\ UNCHANGED <<doc, idVars>>
        ELSE /\ nextObjectId <= MaxObjects
             /\ layers' = addObject(layers, layerId, pathObj)
             /\ selectedObjectIds' = <<pathObj.id>>
             /\ Push("Draw freehand", <<[type |-> "add-object", layerId |-> layerId,
                                         object |-> pathObj, index |-> index]>>)
             /\ nextObjectId' = nextObjectId + 1
             /\ freehand' = freehandIdle
             /\ UNCHANGED <<activeLayerId, nextLayerId>>
     /\ UNCHANGED <<activeTool, storage, surface, nudge, sel, shape>>

\* ------------------------------------------------------------------------
\* Pointer events: utility tools (handleUtilityClick)
\* ------------------------------------------------------------------------

\* handlePointerDown with the eraser: click to delete
EraserPointerDown(point) ==
  LET hit == hitTestLayers(point, layers)
      object == hit[1].object
      layerId == getObjectLayerId(layers, object.id)
      layer == getActiveLayer(layers, layerId[1])
      index == IF layer # <<>> THEN FindIndex(layer[1].objects, object.id) ELSE 0
  IN /\ CanPress
     /\ activeTool = "eraser"
     /\ pressed' = TRUE
     /\ pointerDownRef' = TRUE
     /\ obs' = ObsDown(point)
     /\ IF hit # <<>> /\ layerId # <<>>
        THEN /\ layers' = removeObjectLayers(layers, object.id)
             /\ selectedObjectIds' = removeObjectSelection(selectedObjectIds, object.id)
             /\ Push("Erase object", <<[type |-> "remove-object", layerId |-> layerId[1],
                                        object |-> object, index |-> index]>>)
        ELSE UNCHANGED <<layers, selectedObjectIds, history, historyIndex, nextEntryId>>
     /\ UNCHANGED <<activeLayerId, activeTool, storage, surface, nudge, sel, shape, freehand, nextObjectId, nextLayerId>>

\* handlePointerDown with the fill bucket; fill is the canvas store's fill setting
FillPointerDown(point, fill) ==
  LET hit == hitTestLayers(point, layers)
      object == hit[1].object
      layerId == getObjectLayerId(layers, object.id)
  IN /\ CanPress
     /\ activeTool = "fill"
     /\ pressed' = TRUE
     /\ pointerDownRef' = TRUE
     /\ obs' = ObsDown(point)
     /\ IF hit # <<>> /\ layerId # <<>>
        THEN /\ layers' = updateObject(layers, object.id, [fill |-> fill])
             /\ Push("Fill object", <<[type |-> "modify-object", objectId |-> object.id,
                                       layerId |-> layerId[1],
                                       before |-> [fill |-> object.fill],
                                       after |-> [fill |-> fill]]>>)
        ELSE UNCHANGED <<layers, history, historyIndex, nextEntryId>>
     /\ UNCHANGED <<activeLayerId, selectedObjectIds, activeTool, storage, surface, nudge, sel, shape, freehand,
                    nextObjectId, nextLayerId>>

\* handlePointerUp while a utility tool is active: no tool handler runs
UtilityPointerUp ==
  /\ pressed
  /\ activeTool \in {"eraser", "fill"}
  /\ pressed' = FALSE
  /\ pointerDownRef' = FALSE
  /\ obs' = ObsIdle
  /\ UNCHANGED <<doc, activeTool, storage, surface, nudge, sel, shape, freehand, idVars>>

\* the pointer stream ends without a pointer-up (capture lost, pointer cancelled, escape):
\* the event canvas registers no handler for it
LostPointerCapture ==
  /\ pressed
  /\ pressed' = FALSE
  /\ obs' = [obs EXCEPT !.lost = TRUE]
  /\ UNCHANGED <<doc, activeTool, storage, surface, nudge, pointerDownRef, sel, shape, freehand, idVars>>

\* ------------------------------------------------------------------------
\* Keyboard, toolbar and panel events
\* ------------------------------------------------------------------------

\* toolbar / tool shortcut: canvasStore.setActiveTool(tool)
SetActiveTool(tool) ==
  /\ tool # activeTool
  /\ ~pointerDownRef
  /\ activeTool' = tool
  /\ UNCHANGED <<doc, storage, surface, nudge, pointerDownRef, sel, shape, freehand, idVars, pressed, obs>>

\* a tool shortcut key while the pointer is down: useKeyboardShortcuts calls
\* setActiveTool(tool) whatever the canvas is doing
ToolShortcut(tool) ==
  /\ tool # activeTool
  /\ pointerDownRef
  /\ nudge.keys < MaxSwitches
  /\ activeTool' = tool
  /\ nudge' = [nudge EXCEPT !.keys = @ + 1]
  /\ UNCHANGED <<doc, storage, surface, pointerDownRef, sel, shape, freehand, idVars, pressed,
                 obs>>

\* ---- properties panel (SingleObjectProps) and colour picker ----

\* the object the properties panel edits: the only selected object, if it is found
panelObject ==
  IF Len(selectedObjectIds) = 1 THEN getObject(layers, selectedObjectIds[1]) ELSE <<>>

\* the operations of commitChange(field, before, after) for an object, read from ls
commitChange(ls, objectId, field, before, after) ==
  LET layerId == getObjectLayerId(ls, objectId)
  IN IF layerId = <<>> THEN <<>>
     ELSE <<[type |-> "modify-object", objectId |-> objectId, layerId |-> layerId[1],
             before |-> (field :> before), after |-> (field :> after)]>>

\* what a panel edit leaves alone, next to its guard
PanelFrame ==
  /\ ~pressed
  /\ panelObject # <<>>
  /\ UNCHANGED <<activeLayerId, selectedObjectIds, activeTool, storage, surface, nudge,
                 pointerDownRef, sel, shape, freehand, nextObjectId, nextLayerId, pressed,
                 obs>>

\* the X, Y or Rotation input: setTransformField(field, value)
PanelSetTransformField(field, value) ==
  LET obj == panelObject[1]
      after == [obj.transform EXCEPT ![field] = value]
      ls == updateObject(layers, obj.id, [transform |-> after])
  IN /\ PanelFrame
     /\ layers' = ls
     /\ Push("Change field", commitChange(ls, obj.id, "transform", obj.transform, after))

\* the W or H input of a rectangle or an ellipse, the Sides input of a polygon:
\* setNumericField(field, value)
PanelSetNumericField(field, value) ==
  LET obj == panelObject[1]
      ls == updateObject(layers, obj.id, field :> value)
  IN /\ PanelFrame
     /\ field \in DOMAIN obj
     /\ layers' = ls
     /\ Push("Change field", commitChange(ls, obj.id, field, obj[field], value))

\* the fill colour input, the remove-fill and the add-fill button
PanelSetFill(after) ==
  LET obj == panelObject[1]
      ls == updateObject(layers, obj.id, [fill |-> after])
  IN /\ PanelFrame
     /\ layers' = ls
     /\ Push("Change field", commitChange(ls, obj.id, "fill", obj.fill, after))

\* the opacity slider: updateObject only
PanelSetOpacity(after) ==
  /\ PanelFrame
  /\ layers' = updateObject(layers, panelObject[1].id, [opacity |-> after])
  /\ UNCHANGED <<history, historyIndex, nextEntryId>>

\* the loop of ColorPicker applyFillToSelection(color)
RECURSIVE applyFillEach(_, _, _)
applyFillEach(ls, selected, color) ==
  IF Len(selected) = 0 THEN ls
  ELSE applyFillEach(IF getObject(ls, selected[1]) # <<>>
                     THEN updateObject(ls, selected[1], [fill |-> color]) ELSE ls,
                     Tail(selected), color)

\* the colour picker's fill input or a preset: applyFillToSelection(color)
ColorPickerFill(color) ==
  /\ ~pressed
  /\ layers' = applyFillEach(layers, selectedObjectIds, color)
  /\ UNCHANGED <<activeLayerId, selectedObjectIds, history, historyIndex, activeTool, storage,
                 surface, nudge, pointerDownRef, sel, shape, freehand, idVars, pressed, obs>>

\* page.tsx handleNew: newProject(); newDocument()
NewDocument ==
  LET d == newDocument(nextLayerId)
  IN /\ ~pressed
     /\ nextLayerId <= MaxDocuments + 1
     /\ layers' = d.layers
     /\ activeLayerId' = d.activeLayerId
     /\ selectedObjectIds' = d.selectedObjectIds
     /\ history' = d.history
     /\ historyIndex' = d.historyIndex
     /\ nextLayerId' = nextLayerId + 1
     /\ UNCHANGED <<activeTool, storage, surface, nudge, pointerDownRef, sel, shape, freehand, nextObjectId,
                    nextEntryId, pressed, obs>>

\* page.tsx handleOpen on a version-2 project file: newProject(); newDocument();
\* loadDocument(data.layers, data.layers[0].id); ids drawn later are fresh for the file
OpenDocument(data) ==
  LET d == loadDocument(data, data[1].id)
  IN /\ ~pressed
     /\ nextLayerId <= MaxDocuments + 1
     /\ layers' = d.layers
     /\ activeLayerId' = d.activeLayerId
     /\ selectedObjectIds' = d.selectedObjectIds
     /\ history' = d.history
     /\ historyIndex' = d.historyIndex
     /\ nextLayerId' = nextLayerId + 1
     /\ nextObjectId' = Max(nextObjectId, Len(AllObjects(data)) + 1)
     /\ UNCHANGED <<activeTool, storage, surface, nudge, pointerDownRef, sel, shape, freehand, nextEntryId,
                    pressed, obs>>

\* layers panel "add layer": store.addLayer()
AddLayer ==
  LET r == addLayer(layers, nextLayerId)
  IN /\ ~pressed
     /\ Len(layers) < MaxLayers
     /\ layers' = r.layers
     /\ activeLayerId' = r.activeLayerId
     /\ nextLayerId' = nextLayerId + 1
     /\ UNCHANGED <<selectedObjectIds, history, historyIndex, activeTool, storage, surface, nudge,
                    pointerDownRef, sel, shape, freehand, nextObjectId, nextEntryId,
                    pressed, obs>>

\* store.removeLayer(layerId)
RemoveLayer(layerId) ==
  LET r == removeLayer(layers, activeLayerId, selectedObjectIds, layerId)
  IN /\ ~pressed
     /\ layers' = r.layers
     /\ activeLayerId' = r.activeLayerId
     /\ selectedObjectIds' = r.selectedObjectIds
     /\ UNCHANGED <<history, historyIndex, activeTool, storage, surface, nudge,
                    pointerDownRef, sel, shape, freehand, idVars, pressed, obs>>

\* store.updateLayer(layerId, updates)
UpdateLayer(layerId, updates) ==
  /\ ~pressed
  /\ layers' = updateLayer(layers, layerId, updates)
  /\ UNCHANGED <<activeLayerId, selectedObjectIds, history, historyIndex, activeTool, storage,
                 surface, nudge, pointerDownRef, sel, shape, freehand, idVars, pressed, obs>>

\* store.reorderObject(layerId, fromIndex, toIndex)
StoreReorderObject(layerId, fromIndex, toIndex) ==
  /\ ~pressed
  /\ layers' = reorderObject(layers, layerId, fromIndex, toIndex)
  /\ UNCHANGED <<activeLayerId, selectedObjectIds, history, historyIndex, activeTool, storage,
                 surface, nudge, pointerDownRef, sel, shape, freehand, idVars, pressed, obs>>

\* store.reorderLayer(fromIndex, toIndex)
StoreReorderLayer(fromIndex, toIndex) ==
  /\ ~pressed
  /\ layers' = reorderLayer(layers, fromIndex, toIndex)
  /\ UNCHANGED <<activeLayerId, selectedObjectIds, history, historyIndex, activeTool, storage,
                 surface, nudge, pointerDownRef, sel, shape, freehand, idVars, pressed, obs>>

\* layers panel click on a layer: store.setActiveLayer(layerId)
SetActiveLayer(layerId) ==
  /\ ~pressed
  /\ layerId # activeLayerId
  /\ activeLayerId' = layerId
  /\ UNCHANGED <<layers, selectedObjectIds, history, historyIndex, activeTool, storage, surface, nudge,
                 pointerDownRef, sel, shape, freehand, idVars, pressed, obs>>

\* the user clicks the i-th layer of the layers panel
ChooseLayer(i) ==
  /\ i <= Len(layers)
  /\ SetActiveLayer(layers[i].id)

\* page.tsx handleSave, local branch: localStorage.setItem("openpaint-project", ...).
\* atSave is no part of the item: it remembers the document at save time for the
\* properties.
SaveProject ==
  /\ ~pressed
  /\ storage' = <<[item |-> stringify(projectData(layers)),
                   atSave |-> [layers |-> layers, activeLayerId |-> activeLayerId]]>>
  /\ UNCHANGED <<doc, activeTool, surface, nudge, pointerDownRef, sel, shape, freehand, idVars, pressed,
                 obs>>

\* page.tsx handleFileChange, reader.onload on a file with this JSON text:
\* data.version and data.layers are <<>> when absent
FileChange(text) ==
  LET data == parse(text)
      accepted == data.version # <<>> /\ data.version[1] # <<>> /\ data.layers # <<>>
      fresh == newDocument(nextLayerId)
      ls == data.layers[1]
      d == IF startsWith(data.version[1], <<"2">>)
           THEN loadDocument(ls, IF Len(ls) > 0 THEN ls[1].id ELSE NoId)
           ELSE fresh
  IN /\ ~pressed
     /\ nextLayerId <= MaxDocuments + MaxLayers
     /\ IF accepted
        THEN /\ layers' = d.layers
             /\ activeLayerId' = d.activeLayerId
             /\ selectedObjectIds' = d.selectedObjectIds
             /\ history' = d.history
             /\ historyIndex' = d.historyIndex
             /\ nextLayerId' = nextLayerId + 1
             /\ nextObjectId' = Max(nextObjectId, Len(AllObjects(d.layers)) + 1)
        ELSE UNCHANGED <<doc, nextLayerId, nextObjectId>>
     /\ UNCHANGED <<activeTool, storage, surface, nudge, pointerDownRef, sel, shape, freehand, nextEntryId,
                    pressed, obs>>

\* the file opened holds the project data last saved
OpenSaved ==
  /\ storage # <<>>
  /\ FileChange(storage[1].item)

\* ---- direct calls of the store's primitives ----

\* store.addObject(layerId, object) with a new rectangle
StoreAddObject(layerId) ==
  LET object == [LoadedSquare EXCEPT !.id = nextObjectId]
  IN /\ ~pressed
     /\ nextObjectId <= MaxObjects
     /\ layers' = addObject(layers, layerId, object)
     /\ nextObjectId' = nextObjectId + 1
     /\ obs' = ObsCall("addObject", \A i \in 1..Len(layers) : layers[i].id # layerId)
     /\ UNCHANGED <<activeLayerId, selectedObjectIds, history, historyIndex, activeTool,
                    storage, surface, nudge, pointerDownRef, sel, shape, freehand, nextEntryId, nextLayerId,
                    pressed>>

\* store.removeObject(objectId)
StoreRemoveObject(objectId) ==
  /\ ~pressed
  /\ layers' = removeObjectLayers(layers, objectId)
  /\ selectedObjectIds' = removeObjectSelection(selectedObjectIds, objectId)
  /\ obs' = ObsCall("removeObject", getObject(layers, objectId) = <<>>)
  /\ UNCHANGED <<activeLayerId, history, historyIndex, activeTool, storage, surface, nudge, pointerDownRef,
                 sel, shape, freehand, idVars, pressed>>

\* store.updateObject(objectId, updates)
StoreUpdateObject(objectId, updates) ==
  /\ ~pressed
  /\ layers' = updateObject(layers, objectId, updates)
  /\ obs' = ObsCall("updateObject", getObject(layers, objectId) = <<>>)
  /\ UNCHANGED <<activeLayerId, selectedObjectIds, history, historyIndex, activeTool,
                 storage, surface, nudge, pointerDownRef, sel, shape, freehand, idVars, pressed>>

\* the frame of a direct call of a selection action
SelectionCallFrame ==
  /\ ~pressed
  /\ UNCHANGED <<layers, activeLayerId, history, historyIndex, activeTool, storage, surface, nudge,
                 pointerDownRef, sel, shape, freehand, idVars, pressed, obs>>

\* store.selectObject(objectId, addToSelection)
StoreSelectObject(objectId, addToSelection) ==
  /\ selectedObjectIds' = selectObject(selectedObjectIds, objectId, addToSelection)
  /\ SelectionCallFrame

\* store.deselectObject(objectId)
StoreDeselectObject(objectId) ==
  /\ selectedObjectIds' = deselectObject(selectedObjectIds, objectId)
  /\ SelectionCallFrame

\* store.deselectAll()
StoreDeselectAll ==
  /\ selectedObjectIds' = <<>>
  /\ SelectionCallFrame

\* store.selectAll()
StoreSelectAll ==
  /\ selectedObjectIds' = selectAll(layers, activeLayerId, selectedObjectIds)
  /\ SelectionCallFrame

\* store.setSelection(objectIds)
StoreSetSelection(objectIds) ==
  /\ selectedObjectIds' = objectIds
  /\ SelectionCallFrame

\* Ctrl+Z: store.undo()
Undo ==
  LET r == undo(layers, history, historyIndex)
  IN /\ ~pressed
     /\ layers' = r.layers
     /\ historyIndex' = r.historyIndex
     /\ UNCHANGED <<activeLayerId, selectedObjectIds, history, activeTool, storage, surface, nudge, pointerDownRef,
                    sel, shape, freehand, idVars, pressed, obs>>

\* Ctrl+Shift+Z: store.redo()
Redo ==
  LET r == redo(layers, history, historyIndex)
  IN /\ ~pressed
     /\ layers' = r.layers
     /\ historyIndex' = r.historyIndex
     /\ UNCHANGED <<activeLayerId, selectedObjectIds, history, activeTool, storage, surface, nudge, pointerDownRef,
                    sel, shape, freehand, idVars, pressed, obs>>

RECURSIVE deleteOps(_, _)
deleteOps(ls, selected) ==
  IF Len(selected) = 0 THEN <<>>
  ELSE LET id == selected[1]
           obj == getObject(ls, id)
           layerId == getObjectLayerId(ls, id)
           layer == getActiveLayer(ls, layerId[1])
           index == IF layer # <<>> THEN FindIndex(layer[1].objects, id) ELSE 0
       IN (IF obj # <<>> /\ layerId # <<>>
           THEN <<[type |-> "remove-object", layerId |-> layerId[1], object |-> obj[1],
                   index |-> index]>>
           ELSE <<>>) \o deleteOps(ls, Tail(selected))

RECURSIVE removeEach(_, _)
removeEach(ls, selected) ==
  IF Len(selected) = 0 THEN ls
  ELSE removeEach(removeObjectLayers(ls, selected[Len(selected)]),
                  SubSeq(selected, 1, Len(selected) - 1))

\* Delete / Backspace with a non-empty selection
DeleteSelected ==
  /\ ~pressed
  /\ Len(selectedObjectIds) > 0
  /\ layers' = removeEach(layers, selectedObjectIds)
  /\ selectedObjectIds' = <<>>
  /\ Push("Delete objects", deleteOps(layers, selectedObjectIds))
  /\ UNCHANGED <<activeLayerId, activeTool, storage, surface, nudge, pointerDownRef, sel, shape, freehand,
                 nextObjectId, nextLayerId, pressed, obs>>

\* ---- arrow keys (useKeyboardShortcuts) ----

ArrowKeys == {"arrowup", "arrowdown", "arrowleft", "arrowright"}

\* the displacement of an arrow key: one pixel, ten with Shift
nudgeDelta(key, shift) ==
  LET step == IF shift THEN Px(10) ELSE Px(1)
  IN [dx |-> IF key = "arrowleft" THEN -step ELSE IF key = "arrowright" THEN step ELSE 0,
      dy |-> IF key = "arrowup" THEN -step ELSE IF key = "arrowdown" THEN step ELSE 0]

\* the map of "before" positions captured on the first nudge of a sequence
nudgeBefore(ls, selected) ==
  [id \in {selected[i] : i \in {j \in 1..Len(selected) : getObject(ls, selected[j]) # <<>>}} |->
     LET obj == getObject(ls, id)[1] IN [x |-> obj.transform.x, y |-> obj.transform.y]]

\* the loop of updateObject calls of one nudge
RECURSIVE nudgeEach(_, _, _, _)
nudgeEach(ls, selected, dx, dy) ==
  IF Len(selected) = 0 THEN ls
  ELSE LET id == selected[1]
           obj == getObject(ls, id)
       IN nudgeEach(IF obj # <<>>
                    THEN updateObject(ls, id,
                           [transform |-> [obj[1].transform EXCEPT !.x = @ + dx, !.y = @ + dy]])
                    ELSE ls,
                    Tail(selected), dx, dy)

\* the operations the debounce callback collects
RECURSIVE nudgeOps(_, _, _)
nudgeOps(ls, selected, before) ==
  IF Len(selected) = 0 THEN <<>>
  ELSE LET id == selected[1]
           obj == getObject(ls, id)
           layerId == getObjectLayerId(ls, id)
       IN (IF obj # <<>> /\ id \in DOMAIN before /\ layerId # <<>>
           THEN <<[type |-> "modify-object", objectId |-> id, layerId |-> layerId[1],
                   before |-> [transform |-> [obj[1].transform EXCEPT
                                                !.x = before[id].x, !.y = before[id].y]],
                   after |-> [transform |-> obj[1].transform]]>>
           ELSE <<>>) \o nudgeOps(ls, Tail(selected), before)

\* an arrow key with a non-empty selection: the selected objects move, the positions
\* before the first nudge of the sequence are kept, and the 500 ms timer is restarted
Nudge(key, shift) ==
  LET d == nudgeDelta(key, shift)
  IN /\ ~pressed
     /\ Len(selectedObjectIds) > 0
     /\ nudge.keys < MaxNudges
     /\ layers' = nudgeEach(layers, selectedObjectIds, d.dx, d.dy)
     /\ nudge' = [beforeRef |-> IF nudge.beforeRef = <<>>
                                THEN <<nudgeBefore(layers, selectedObjectIds)>>
                                ELSE nudge.beforeRef,
                  timerRef |-> TRUE,
                  keys |-> nudge.keys + 1]
     /\ UNCHANGED <<activeLayerId, selectedObjectIds, history, historyIndex, activeTool,
                    storage, surface, pointerDownRef, sel, shape, freehand, idVars,
                    pressed, obs>>

\* the debounce timer fires: the nudges since the first of the sequence are recorded for
\* the objects selected now
NudgeTimer ==
  LET ops == IF nudge.beforeRef # <<>>
             THEN nudgeOps(layers, selectedObjectIds, nudge.beforeRef[1])
             ELSE <<>>
  IN /\ nudge.timerRef
     /\ Push("Nudge objects", ops)
     /\ nudge' = [nudge EXCEPT !.beforeRef = <<>>, !.timerRef = FALSE]
     /\ UNCHANGED <<layers, activeLayerId, selectedObjectIds, activeTool, storage, surface,
                    pointerDownRef, sel, shape, freehand, nextObjectId, nextLayerId,
                    pressed, obs>>

\* ------------------------------------------------------------------------
\* Rendering effects (components/canvas/VectorCanvas)
\* ------------------------------------------------------------------------

\* useEffect -> renderMain()
RenderMain ==
  /\ surface' = [surface EXCEPT !.main = renderScene(layers)]
  /\ UNCHANGED <<doc, activeTool, storage, nudge, pointerDownRef, sel, shape, freehand, idVars, pressed,
                 obs>>

\* useEffect -> renderOverlay(), between gestures: no tool preview and no marquee is
\* there to be drawn after the selection overlay
RenderOverlay ==
  /\ ~pressed
  /\ ~shape.active
  /\ ~freehand.active
  /\ sel.mode # "marquee"
  /\ surface' = [surface EXCEPT !.overlay =
                   <<[op |-> "clearRect"]>> \o renderSelectionOverlay(layers, selectedObjectIds)]
  /\ UNCHANGED <<doc, activeTool, storage, nudge, pointerDownRef, sel, shape, freehand, idVars, pressed,
                 obs>>

\* ------------------------------------------------------------------------
\* Specifications
\* ------------------------------------------------------------------------

\* History mechanics: objects are created, erased, filled and deleted, and the user
\* walks the history with undo and redo.
HistoryTools == {"rectangle", "eraser", "fill"}

NextHistory ==
  \/ \E tool \in HistoryTools : SetActiveTool(tool)
  \/ \E point \in DrawPoints : ShapePointerDown(point)
  \/ \E point \in DrawPoints, mod \in ShapeModifiers : ShapePointerMove(point, mod[1], mod[2])
  \/ \E point \in DrawPoints, fill \in CreateFills : ShapePointerUp(point, fill)
  \/ \E point \in Points : EraserPointerDown(point)
  \/ \E point \in Points, fill \in FillSettings : FillPointerDown(point, fill)
  \/ UtilityPointerUp
  \/ Undo
  \/ Redo
  \/ DeleteSelected

SpecHistory == Init /\ [][NextHistory]_vars

\* Selection tool: a document has been opened (page.tsx handleOpen -> loadDocument) and
\* the user works on it with the selection tool; the pointer stream may be cut.
StartSelectionGesture(point, shiftKey) ==
  /\ nextEntryId <= MaxDrags
  /\ SelectionPointerDown(point, shiftKey)

NextSelection ==
  \/ \E point \in Points, shiftKey \in BOOLEAN : StartSelectionGesture(point, shiftKey)
  \/ \E point \in Points : SelectionPointerMove(point)
  \/ \E point \in Points : SelectionPointerUp(point)
  \/ LostPointerCapture

SpecSelection == InitLoaded /\ [][NextSelection]_vars

\* pointer positions of the picking gestures: a corner of the lower rectangle, and the
\* centre where the three objects overlap
PickPoints == {Pt(0, 0), Pt(Px(6), Px(6))}

\* the selection tool on files with several layers and hidden or locked items
NextPicking ==
  \/ \E point \in PickPoints, shiftKey \in BOOLEAN : StartSelectionGesture(point, shiftKey)
  \/ \E point \in PickPoints : SelectionPointerMove(point)
  \/ \E point \in PickPoints : SelectionPointerUp(point)
  \/ LostPointerCapture

SpecPicking == InitPicking /\ [][NextPicking]_vars

\* Shape tools: rectangles and ellipses are drawn one after the other.
NextShapes ==
  \/ \E tool \in SHAPE_TOOLS : SetActiveTool(tool)
  \/ \E point \in DrawPoints : ShapePointerDown(point)
  \/ \E point \in DrawPoints, mod \in ShapeModifiers : ShapePointerMove(point, mod[1], mod[2])
  \/ \E point \in DrawPoints, fill \in CreateFills : ShapePointerUp(point, fill)

SpecShapes == Init /\ [][NextShapes]_vars

\* Documents: rectangles are drawn, undone and redone, and the document is replaced by
\* a new one or by a project file.
DocumentTools == {"rectangle"}

NextDocuments ==
  \/ \E tool \in DocumentTools : SetActiveTool(tool)
  \/ \E point \in DrawPoints : ShapePointerDown(point)
  \/ \E point \in DrawPoints, mod \in ShapeModifiers : ShapePointerMove(point, mod[1], mod[2])
  \/ \E point \in DrawPoints, fill \in CreateFills : ShapePointerUp(point, fill)
  \/ Undo
  \/ Redo
  \/ NewDocument
  \/ \E data \in LoadedDocuments : OpenDocument(data)

SpecDocuments == Init /\ [][NextDocuments]_vars

\* History-recording pointer gestures of every kind, and nothing else.
GestureTools == {"selection", "rectangle", "brush", "eraser", "fill"}

GestureDrawPoints == {Pt(0, 0), Pt(Px(12), Px(12))}

GesturePoints == {Pt(Px(6), Px(6)), Pt(Px(12), Px(12))}

NextGestures ==
  \/ \E tool \in GestureTools : SetActiveTool(tool)
  \/ \E point \in GesturePoints : SelectionPointerDown(point, FALSE)
  \/ \E point \in GesturePoints : SelectionPointerMove(point)
  \/ \E point \in GesturePoints : SelectionPointerUp(point)
  \/ \E point \in GestureDrawPoints : ShapePointerDown(point)
  \/ \E point \in GestureDrawPoints, mod \in ShapeModifiers :
       ShapePointerMove(point, mod[1], mod[2])
  \/ \E point \in GestureDrawPoints, fill \in CreateFills : ShapePointerUp(point, fill)
  \/ \E point \in GestureDrawPoints : BrushPointerDown(point)
  \/ \E point \in GestureDrawPoints : BrushPointerMove(point)
  \/ \E fill \in CreateFills : BrushPointerUp(fill)
  \/ \E point \in GesturePoints : EraserPointerDown(point)
  \/ \E point \in GesturePoints, fill \in FillSettings : FillPointerDown(point, fill)
  \/ UtilityPointerUp

SpecGestures == Init /\ [][NextGestures]_vars

\* Persistence: layers are added and chosen, rectangles are drawn, the project is saved
\* and project files, well-formed or not, are opened.
UnknownTagObject == [LoadedSquare EXCEPT !.type = "star"]

MissingFieldObject ==
  [k \in (DOMAIN LoadedSquare) \ {"width"} |-> LoadedSquare[k]]

\* files the user may pick: version-2 files whose object has an unknown variant tag
\* or lacks its width, a file of another version with a layer payload the document
\* store does not support, and a file without layers
MalformedFiles ==
  {stringify([version |-> <<<<"2", ".", "0", ".", "0">>>>,
              layers |-> <<<<[createLayer(1) EXCEPT !.objects = <<object>>]>>>>])
     : object \in {UnknownTagObject, MissingFieldObject}}
  \cup {stringify([version |-> <<<<"1", ".", "0", ".", "0">>>>,
                   layers |-> <<<<[id |-> 1, name |-> "Layer 1", blendMode |-> "source-over"]>>>>]),
        stringify([version |-> <<<<"2", ".", "0", ".", "0">>>>, layers |-> <<>>])}

NextPersistence ==
  \/ \E tool \in DocumentTools : SetActiveTool(tool)
  \/ \E point \in GestureDrawPoints : ShapePointerDown(point)
  \/ \E point \in GestureDrawPoints, mod \in ShapeModifiers :
       ShapePointerMove(point, mod[1], mod[2])
  \/ \E point \in GestureDrawPoints, fill \in CreateFills : ShapePointerUp(point, fill)
  \/ AddLayer
  \/ \E i \in 1..MaxLayers : ChooseLayer(i)
  \/ SaveProject
  \/ OpenSaved
  \/ \E text \in MalformedFiles : FileChange(text)

SpecPersistence == Init /\ [][NextPersistence]_vars

\* Store: the document store's primitives are called directly, with ids that name an
\* object or a layer of the document and with ids that name none, next to the rectangle
\* tool, undo and redo.
\* the id of the first object ever created, and an id no object ever gets
StoreIds == {1, MaxObjects + 1}

StoreUpdates == {[transform |-> createTransform(Px(3), 0)]}

StoreSelections == {<<2, 1>>}

NextStore ==
  \/ \E tool \in DocumentTools : SetActiveTool(tool)
  \/ \E point \in GestureDrawPoints : ShapePointerDown(point)
  \/ \E point \in GestureDrawPoints, mod \in ShapeModifiers :
       ShapePointerMove(point, mod[1], mod[2])
  \/ \E point \in GestureDrawPoints, fill \in CreateFills : ShapePointerUp(point, fill)
  \/ Undo
  \/ Redo
  \/ \E layerId \in 1..MaxLayers : StoreAddObject(layerId)
  \/ \E objectId \in StoreIds : StoreRemoveObject(objectId)
  \/ \E objectId \in StoreIds, updates \in StoreUpdates : StoreUpdateObject(objectId, updates)
  \/ \E objectId \in StoreIds, add \in BOOLEAN : StoreSelectObject(objectId, add)
  \/ \E objectId \in StoreIds : StoreDeselectObject(objectId)
  \/ StoreDeselectAll
  \/ StoreSelectAll
  \/ \E objectIds \in StoreSelections : StoreSetSelection(objectIds)

SpecStore == Init /\ [][NextStore]_vars

\* Selecting: a document has been opened; the user selects with the selection tool,
\* moves and resizes, undoes and redoes, and the selection primitives of the store are
\* called in between.
\* the id the selection primitives are called with: the second object of a document of
\* two, no object of a document of one
SelectingIds == {2}

StartSelectingGesture(point, shiftKey) ==
  /\ nextEntryId <= MaxDrags + 1
  /\ SelectionPointerDown(point, shiftKey)

NextSelecting ==
  \/ \E point \in GestureDrawPoints, shiftKey \in BOOLEAN :
       StartSelectingGesture(point, shiftKey)
  \/ \E point \in GestureDrawPoints : SelectionPointerMove(point)
  \/ \E point \in GestureDrawPoints : SelectionPointerUp(point)
  \/ Undo
  \/ Redo
  \/ \E objectId \in SelectingIds, add \in BOOLEAN : StoreSelectObject(objectId, add)
  \/ \E objectId \in SelectingIds : StoreDeselectObject(objectId)
  \/ StoreDeselectAll
  \/ StoreSelectAll
  \/ \E objectIds \in StoreSelections : StoreSetSelection(objectIds)

SpecSelecting == InitLoaded /\ [][NextSelecting]_vars

\* Transforms: squares are added to the first layer, the first of them is given
\* transforms of every quarter turn, scale and translation, and the selection tool is
\* pressed on the result.
Rotations == {0, 90, 180, 270}

Scales == {-1, 0, 1, 2}

Transforms ==
  {[x |-> x, y |-> 0, rotation |-> r, scaleX |-> sx, scaleY |-> sy] :
     x \in {0, Px(6)}, r \in Rotations, sx \in Scales, sy \in Scales}

TransformTools == {"selection"}

TransformPoints == {Pt(0, 0), Pt(Px(6), Px(6))}

NextTransforms ==
  \/ \E tool \in TransformTools : SetActiveTool(tool)
  \/ \E layerId \in {1} : StoreAddObject(layerId)
  \/ \E transform \in Transforms : StoreUpdateObject(1, [transform |-> transform])
  \/ \E point \in TransformPoints : SelectionPointerDown(point, FALSE)

SpecTransforms == Init /\ [][NextTransforms]_vars

\* Rendering: a project file holding every variant of object has been opened; objects
\* are selected by clicks and by the selection primitives, and both canvases are
\* rendered.
\* the fields every variant has (BaseVectorObject)
baseObject(id, type, x, y) ==
  [id |-> id, type |-> type, transform |-> createTransform(x, y), fill |-> "#000000",
   visible |-> TRUE, locked |-> FALSE, opacity |-> FullOpacity]

\* opacity 0.5
HalfOpacity == 5

\* an open curve from (0,0) to (12,0) whose control points lie 12 pixels below
LoadedCurve ==
  Merge(baseObject(2, "path", 0, 0),
        [closed |-> FALSE,
         segments |-> <<[type |-> "M", x |-> 0, y |-> 0],
                        [type |-> "C", cp1x |-> 0, cp1y |-> Px(12), cp2x |-> Px(12),
                         cp2y |-> Px(12), x |-> Px(12), y |-> 0]>>])

LoadedLine == Merge(baseObject(4, "line", 0, 0), [endX |-> Px(6), endY |-> Px(6)])

\* two characters of size 10 and line height 1.2
LoadedText ==
  Merge(baseObject(5, "text", Px(6), 0),
        [content |-> <<"a", "b">>, fontSize |-> Px(10), lineHeight |-> 12])

LoadedPolygon == Merge(baseObject(6, "polygon", Px(6), Px(6)), [sides |-> 6, radius |-> Px(6)])

\* a half-transparent group of a line and a text, 6 pixels to the right and below
LoadedGroup(textFlag) ==
  Merge([baseObject(3, "group", Px(6), Px(6)) EXCEPT !.opacity = HalfOpacity],
        [children |-> <<LoadedLine, withFlag(LoadedText, textFlag)>>])

\* objects without area or length
ZeroWidthRectangle == Merge(baseObject(1, "rectangle", 0, 0), [width |-> 0, height |-> Px(12)])

ZeroRadiusEllipse == Merge(baseObject(1, "ellipse", 0, 0), [radiusX |-> 0, radiusY |-> Px(6)])

ZeroRadiusPolygon == Merge(baseObject(1, "polygon", Px(6), Px(6)), [sides |-> 6, radius |-> 0])

ZeroLengthLine == Merge(baseObject(1, "line", Px(6), Px(6)), [endX |-> 0, endY |-> 0])

DegenerateObjects == {ZeroWidthRectangle, ZeroRadiusEllipse, ZeroRadiusPolygon, ZeroLengthLine}

ShownOrHidden == {"normal", "hidden"}

RenderChoices == [{"lower", "curve", "group", "text"} -> ShownOrHidden]

\* project files with a half-transparent rectangle and a curve in the lower layer, a
\* polygon under a group in the upper one, items hidden or not, the lower layer opaque or
\* not; and files holding a single object without area
RenderDocuments ==
  {<<withFlag([createLayer(1) EXCEPT
                 !.opacity = opacity,
                 !.objects = <<[LoadedRectangle EXCEPT !.opacity = HalfOpacity],
                               withFlag(LoadedCurve, f.curve)>>], f.lower),
     [createLayer(2) EXCEPT
        !.objects = <<LoadedPolygon, withFlag(LoadedGroup(f.text), f.group)>>]>>
     : f \in RenderChoices, opacity \in {FullOpacity, HalfOpacity}}
  \cup {<<[createLayer(1) EXCEPT !.objects = <<object>>]>> : object \in DegenerateObjects}

\* the state after page.tsx handleOpen loaded one of RenderDocuments, the selection tool
\* chosen
InitRendering ==
  \E data \in RenderDocuments :
    LET d == loadDocument(data, data[1].id)
    IN /\ layers = d.layers
       /\ activeLayerId = d.activeLayerId
       /\ selectedObjectIds = d.selectedObjectIds
       /\ history = d.history
       /\ historyIndex = d.historyIndex
       /\ activeTool = "selection"
       /\ pointerDownRef = FALSE
       /\ sel = freshState
       /\ shape = shapeIdle
       /\ freehand = freehandIdle
       /\ nextObjectId = Len(AllObjects(data)) + 1
       /\ nextEntryId = 1
       /\ nextLayerId = Len(data) + 1
       /\ pressed = FALSE
       /\ storage = <<>>
       /\ surface = BlankSurface
       /\ nudge = nudgeIdle
       /\ obs = ObsIdle

\* the line inside the group
RenderIds == {4}

NextRendering ==
  \/ \E point \in PickPoints, shiftKey \in BOOLEAN : StartSelectionGesture(point, shiftKey)
  \/ \E point \in PickPoints : SelectionPointerUp(point)
  \/ \E objectId \in RenderIds : StoreSelectObject(objectId, TRUE)
  \/ StoreSelectAll
  \/ RenderMain
  \/ RenderOverlay

SpecRendering == InitRendering /\ [][NextRendering]_vars

\* Painting: the opened file is shown on the main canvas while the group and the polygon
\* are hidden or made half-transparent.
PaintIds == {3, 6}

PaintUpdates == {[visible |-> FALSE], [opacity |-> HalfOpacity]}

NextPainting ==
  \/ \E objectId \in PaintIds, updates \in PaintUpdates : StoreUpdateObject(objectId, updates)
  \/ RenderMain

SpecPainting == InitRendering /\ [][NextPainting]_vars

\* Freehand: strokes of up to MaxSamples + 1 samples are drawn with the brush, some of
\* the pointer positions lying closer together than MIN_DISTANCE.
FreehandPoints == {Pt(0, 0), Pt(Px(1), 0), Pt(Px(6), 0), Pt(Px(6), Px(12)), Pt(Px(12), Px(12))}

StartStroke(point) ==
  /\ nextEntryId <= MaxDrags
  /\ BrushPointerDown(point)

StrokeMove(point) == BrushPointerMoveWithin(point, MaxSamples + 1)

NextFreehand ==
  \/ \E point \in FreehandPoints : StartStroke(point)
  \/ \E point \in FreehandPoints : StrokeMove(point)
  \/ \E fill \in CreateFills : BrushPointerUp(fill)

SpecFreehand == Init /\ [][NextFreehand]_vars

\* Deleting: a document with one layer of three objects has been opened; the selection
\* is set to any objects in any order, Delete is pressed, and the user undoes and redoes.
LoadedStack == <<LoadedSquare, LoadedEllipse, [LoadedSquare EXCEPT !.id = 3]>>

\* every non-empty list of distinct object ids of the stack
DeleteSelections ==
  {s \in UNION {[1..n -> 1..Len(LoadedStack)] : n \in 1..Len(LoadedStack)} :
     \A i, j \in DOMAIN s : s[i] = s[j] => i = j}

InitDeleting ==
  LET d == loadDocument(<<[createLayer(1) EXCEPT !.objects = LoadedStack]>>, 1)
  IN /\ layers = d.layers
     /\ activeLayerId = d.activeLayerId
     /\ selectedObjectIds = d.selectedObjectIds
     /\ history = d.history
     /\ historyIndex = d.historyIndex
     /\ activeTool = "selection"
     /\ pointerDownRef = FALSE
     /\ sel = freshState
     /\ shape = shapeIdle
     /\ freehand = freehandIdle
     /\ nextObjectId = Len(LoadedStack) + 1
     /\ nextEntryId = 1
     /\ nextLayerId = 2
     /\ pressed = FALSE
     /\ storage = <<>>
     /\ surface = BlankSurface
     /\ nudge = nudgeIdle
     /\ obs = ObsIdle

NextDeleting ==
  \/ \E objectIds \in DeleteSelections : StoreSetSelection(objectIds)
  \/ DeleteSelected
  \/ Undo
  \/ Redo

SpecDeleting == InitDeleting /\ [][NextDeleting]_vars

\* Nudging: a document of two objects has been opened; the selection is set and
\* cleared, arrow keys nudge it, the debounce timer fires whenever it is pending, and in
\* between the user drags with the selection tool, deletes, undoes and redoes.
NudgeDocument == <<[createLayer(1) EXCEPT !.objects = <<LoadedRectangle, LoadedEllipse>>]>>

NudgeSelections == {<<1>>}

NudgeKeys == {"arrowright"}

InitNudging ==
  LET d == loadDocument(NudgeDocument, 1)
  IN /\ layers = d.layers
     /\ activeLayerId = d.activeLayerId
     /\ selectedObjectIds = d.selectedObjectIds
     /\ history = d.history
     /\ historyIndex = d.historyIndex
     /\ activeTool = "selection"
     /\ pointerDownRef = FALSE
     /\ sel = freshState
     /\ shape = shapeIdle
     /\ freehand = freehandIdle
     /\ nextObjectId = 3
     /\ nextEntryId = 1
     /\ nextLayerId = 2
     /\ pressed = FALSE
     /\ storage = <<>>
     /\ surface = BlankSurface
     /\ nudge = nudgeIdle
     /\ obs = ObsIdle

StartNudgingGesture(point) ==
  /\ nextEntryId <= MaxDrags
  /\ SelectionPointerDown(point, FALSE)

NextNudging ==
  \/ \E objectIds \in NudgeSelections : StoreSetSelection(objectIds)
  \/ StoreDeselectAll
  \/ \E key \in NudgeKeys : Nudge(key, FALSE)
  \/ NudgeTimer
  \/ \E point \in GesturePoints : StartNudgingGesture(point)
  \/ \E point \in GesturePoints : SelectionPointerMove(point)
  \/ \E point \in GesturePoints : SelectionPointerUp(point)
  \/ DeleteSelected
  \/ Undo
  \/ Redo

SpecNudging == InitNudging /\ [][NextNudging]_vars

\* Switching: a document has been opened; the user drags with the selection tool and
\* presses tool shortcuts while the pointer is down; the release goes to the handler of
\* the tool that is active by then.
SwitchTools == {"selection", "rectangle", "brush", "eraser"}

NextSwitching ==
  \/ \E point \in GesturePoints : StartSelectionGesture(point, FALSE)
  \/ \E point \in GesturePoints : SelectionPointerMove(point)
  \/ \E point \in GesturePoints : SelectionPointerUp(point)
  \/ \E tool \in SwitchTools : ToolShortcut(tool)
  \/ \E point \in GesturePoints : ShapePointerMove(point, FALSE, FALSE)
  \/ \E point \in GesturePoints, fill \in CreateFills : ShapePointerUp(point, fill)
  \/ \E point \in GesturePoints : BrushPointerMove(point)
  \/ \E fill \in CreateFills : BrushPointerUp(fill)
  \/ UtilityPointerUp
  \/ \E tool \in {"selection"} : SetActiveTool(tool)

SpecSwitching == InitLoaded /\ [][NextSwitching]_vars

\* Panel: a document has been opened; objects are selected, edited through the
\* properties panel and the colour picker, and the user undoes and redoes.
PanelSelections == {<<1>>, <<2, 1>>}

PanelTransformEdits == {<<"x", Px(3)>>, <<"rotation", 90>>}

PanelNumericEdits == {<<"width", Px(6)>>, <<"radiusX", Px(3)>>}

PanelFills == {NoFill, "#3b82f6"}

PanelOpacities == {HalfOpacity}

PickerColors == {"#ff0000"}

NextPanel ==
  \/ \E objectIds \in PanelSelections : StoreSetSelection(objectIds)
  \/ \E edit \in PanelTransformEdits : PanelSetTransformField(edit[1], edit[2])
  \/ \E edit \in PanelNumericEdits : PanelSetNumericField(edit[1], edit[2])
  \/ \E fill \in PanelFills : PanelSetFill(fill)
  \/ \E opacity \in PanelOpacities : PanelSetOpacity(opacity)
  \/ \E color \in PickerColors : ColorPickerFill(color)
  \/ Undo
  \/ Redo

SpecPanel == InitLoaded /\ [][NextPanel]_vars

\* Resizing: a project file holding rectangles, an ellipse and a line has been opened;
\* the objects are selected together, the handles of the selection are dragged with the
\* selection tool, and the gestures are undone and redone.
\* a line from (12, 0) down and to the left to (0, 12)
ResizeLine ==
  Merge(baseObject(2, "line", Px(12), 0), [endX |-> 0 - Px(12), endY |-> Px(12)])

ResizeDocuments ==
  {<<[createLayer(1) EXCEPT !.objects = objects]>>
     : objects \in {<<LoadedRectangle, LoadedEllipse>>, <<LoadedSquare, ResizeLine>>}}

\* pointer positions of the resize gestures: two opposite corners of the loaded
\* selections, their centre and a position beyond them
ResizePoints ==
  {Pt(0, 0), Pt(Px(6), Px(6)), Pt(Px(12), Px(12)), Pt(Px(24), Px(18))}

InitResizing ==
  \E data \in ResizeDocuments :
    LET d == loadDocument(data, data[1].id)
    IN /\ layers = d.layers
       /\ activeLayerId = d.activeLayerId
       /\ selectedObjectIds = d.selectedObjectIds
       /\ history = d.history
       /\ historyIndex = d.historyIndex
       /\ activeTool = "selection"
       /\ pointerDownRef = FALSE
       /\ sel = freshState
       /\ shape = shapeIdle
       /\ freehand = freehandIdle
       /\ nextObjectId = Len(data[1].objects) + 1
       /\ nextEntryId = 1
       /\ nextLayerId = 2
       /\ pressed = FALSE
       /\ storage = <<>>
       /\ surface = BlankSurface
       /\ nudge = nudgeIdle
       /\ obs = ObsIdle

NextResizing ==
  \/ StoreSelectAll
  \/ \E point \in ResizePoints : StartSelectionGesture(point, FALSE)
  \/ \E point \in ResizePoints : SelectionPointerMove(point)
  \/ \E point \in ResizePoints : SelectionPointerUp(point)
  \/ Undo
  \/ Redo

SpecResizing == InitResizing /\ [][NextResizing]_vars

\* Layers: layers are added, removed and updated, rectangles are drawn, the document is
\* replaced by a new one, the project is saved, and project files are opened: the one
\* last saved, and one whose layer list is empty.
\* a version-2 project file with "layers": []
EmptyProjectFile ==
  stringify([version |-> <<<<"2", ".", "0", ".", "0">>>>, layers |-> <<<<>>>>])

\* the layer ids the panel calls are made with: ids of layers and an id of none
LayerIds == 1..(MaxDocuments + MaxLayers + 1)

LayerUpdates == {[visible |-> FALSE]}

AddLayerFresh ==
  /\ nextLayerId <= MaxDocuments + MaxLayers
  /\ AddLayer

NextLayers ==
  \/ \E tool \in DocumentTools : SetActiveTool(tool)
  \/ \E point \in {Pt(0, 0)} : ShapePointerDown(point)
  \/ \E point \in {Pt(Px(12), Px(12))}, mod \in ShapeModifiers :
       ShapePointerMove(point, mod[1], mod[2])
  \/ \E point \in {Pt(Px(12), Px(12))}, fill \in CreateFills : ShapePointerUp(point, fill)
  \/ AddLayerFresh
  \/ \E layerId \in LayerIds : RemoveLayer(layerId)
  \/ \E layerId \in LayerIds, updates \in LayerUpdates : UpdateLayer(layerId, updates)
  \/ NewDocument
  \/ SaveProject
  \/ OpenSaved
  \/ \E text \in {EmptyProjectFile} : FileChange(text)

SpecLayers == Init /\ [][NextLayers]_vars

\* Reordering: a project file with two layers has been opened and the reorder
\* primitives of the store are called, with indices inside and outside the lists.
ReorderDocument ==
  <<[createLayer(1) EXCEPT !.objects = LoadedStack],
    [createLayer(2) EXCEPT !.objects = <<[LoadedSquare EXCEPT !.id = 4],
                                         [LoadedEllipse EXCEPT !.id = 5]>>]>>

\* indices the reorder primitives are called with: -1 and 3 name no element of a list
\* of three
ReorderIndices == -1..3

\* layer ids the reorder primitives are called with: 3 names no layer
ReorderLayerIds == 1..3

\* no entry of the layer list or of an object list is undefined
Intact(ls) ==
  \A i \in 1..Len(ls) :
    /\ ls[i] # undefined
    /\ \A j \in 1..Len(ls[i].objects) : ls[i].objects[j] # undefined

InitReordering ==
  LET d == loadDocument(ReorderDocument, ReorderDocument[1].id)
  IN /\ layers = d.layers
     /\ activeLayerId = d.activeLayerId
     /\ selectedObjectIds = d.selectedObjectIds
     /\ history = d.history
     /\ historyIndex = d.historyIndex
     /\ activeTool = "selection"
     /\ pointerDownRef = FALSE
     /\ sel = freshState
     /\ shape = shapeIdle
     /\ freehand = freehandIdle
     /\ nextObjectId = Len(AllObjects(ReorderDocument)) + 1
     /\ nextEntryId = 1
     /\ nextLayerId = Len(ReorderDocument) + 1
     /\ pressed = FALSE
     /\ storage = <<>>
     /\ surface = BlankSurface
     /\ nudge = nudgeIdle
     /\ obs = ObsIdle

\* the calls are made on a document that holds no undefined entry
ReorderObjectCall(layerId, fromIndex, toIndex) ==
  /\ Intact(layers)
  /\ StoreReorderObject(layerId, fromIndex, toIndex)

ReorderLayerCall(fromIndex, toIndex) ==
  /\ Intact(layers)
  /\ StoreReorderLayer(fromIndex, toIndex)

NextReordering ==
  \/ \E layerId \in ReorderLayerIds, fromIndex \in ReorderIndices, toIndex \in ReorderIndices :
       ReorderObjectCall(layerId, fromIndex, toIndex)
  \/ \E fromIndex \in ReorderIndices, toIndex \in ReorderIndices :
       ReorderLayerCall(fromIndex, toIndex)

SpecReordering == InitReordering /\ [][NextReordering]_vars

\* Groups: a project file holding a rectangle and a group that holds a polygon and a
\* second group has been opened; the update and remove primitives of the store are
\* called with the ids of top-level objects, of group children and of no object.
\* a group of a polygon and the group of a line and a text
NestedGroup ==
  Merge(baseObject(7, "group", 0, 0), [children |-> <<LoadedPolygon, LoadedGroup("normal")>>])

GroupDocument == <<[createLayer(1) EXCEPT !.objects = <<LoadedRectangle, NestedGroup>>]>>

\* the ids of the rectangle, the inner group, the line, the text, the polygon and the
\* outer group, and an id of no object
GroupIds == 1..8 \ {2}

GroupUpdates ==
  {[transform |-> createTransform(Px(3), 0)], [visible |-> FALSE], [locked |-> TRUE],
   [opacity |-> HalfOpacity]}

InitGroups ==
  LET d == loadDocument(GroupDocument, GroupDocument[1].id)
  IN /\ layers = d.layers
     /\ activeLayerId = d.activeLayerId
     /\ selectedObjectIds = d.selectedObjectIds
     /\ history = d.history
     /\ historyIndex = d.historyIndex
     /\ activeTool = "selection"
     /\ pointerDownRef = FALSE
     /\ sel = freshState
     /\ shape = shapeIdle
     /\ freehand = freehandIdle
     /\ nextObjectId = 9
     /\ nextEntryId = 1
     /\ nextLayerId = 2
     /\ pressed = FALSE
     /\ storage = <<>>
     /\ surface = BlankSurface
     /\ nudge = nudgeIdle
     /\ obs = ObsIdle

NextGroups ==
  \/ \E objectId \in GroupIds, updates \in GroupUpdates : StoreUpdateObject(objectId, updates)
  \/ \E objectId \in GroupIds : StoreRemoveObject(objectId)

SpecGroups == InitGroups /\ [][NextGroups]_vars

\* Group picking: a project file holding a group of a line and a text has been opened,
\* the group and its children shown or hidden, and the user clicks with the selection
\* tool on the line, on the text and beside both.
HitChoices == [{"group", "line", "text"} -> ShownOrHidden]

HitDocuments ==
  {<<[createLayer(1) EXCEPT
        !.objects = <<withFlag(Merge(baseObject(3, "group", Px(6), Px(6)),
                                     [children |-> <<withFlag(LoadedLine, f.line),
                                                     withFlag(LoadedText, f.text)>>]),
                               f.group)>>]>>
     : f \in HitChoices}

\* pointer positions: on the line, inside the box of the text, and on neither
HitPoints == {Pt(Px(9), Px(9)), Pt(Px(18), Px(12)), Pt(0, 0)}

InitHitting ==
  \E data \in HitDocuments :
    LET d == loadDocument(data, data[1].id)
    IN /\ layers = d.layers
       /\ activeLayerId = d.activeLayerId
       /\ selectedObjectIds = d.selectedObjectIds
       /\ history = d.history
       /\ historyIndex = d.historyIndex
       /\ activeTool = "selection"
       /\ pointerDownRef = FALSE
       /\ sel = freshState
       /\ shape = shapeIdle
       /\ freehand = freehandIdle
       /\ nextObjectId = 6
       /\ nextEntryId = 1
       /\ nextLayerId = 2
       /\ pressed = FALSE
       /\ storage = <<>>
       /\ surface = BlankSurface
       /\ nudge = nudgeIdle
       /\ obs = ObsIdle

NextHitting ==
  \/ \E point \in HitPoints, shiftKey \in BOOLEAN : StartSelectionGesture(point, shiftKey)
  \/ \E point \in HitPoints : SelectionPointerUp(point)
  \/ RenderMain

SpecHitting == InitHitting /\ [][NextHitting]_vars

\* ------------------------------------------------------------------------
\* Properties
\* ------------------------------------------------------------------------

\* the step pushes a history entry
Pushes == nextEntryId' = nextEntryId + 1

\* undo() / redo() called n times in a row
RECURSIVE undoTimes(_, _, _, _)
undoTimes(ls, h, idx, n) ==
  IF n = 0 THEN [layers |-> ls, historyIndex |-> idx]
  ELSE LET r == undo(ls, h, idx) IN undoTimes(r.layers, h, r.historyIndex, n - 1)

RECURSIVE redoTimes(_, _, _, _)
redoTimes(ls, h, idx, n) ==
  IF n = 0 THEN [layers |-> ls, historyIndex |-> idx]
  ELSE LET r == redo(ls, h, idx) IN redoTimes(r.layers, h, r.historyIndex, n - 1)

\* the layers of the new document every run of SpecGestures starts from
StartLayers == <<createLayer(1)>>

\* between gestures, n undos lead back to the start layers and n redos forward again
InverseLaw(n) ==
  ~pointerDownRef =>
    LET u == undoTimes(layers, history, historyIndex, n)
    IN /\ u.layers = StartLayers
       /\ redoTimes(u.layers, history, u.historyIndex, n).layers = layers

\* C1 as stated: after N history-recording gestures from a document whose history is
\* below capacity with the cursor at the end, N undos restore the layers before the
\* gestures and N redos the layers after them
C1_UndoRedoInverse == InverseLaw(nextEntryId - 1)

\* C1, amended: the same when the N new entries fit into the capacity
C1_UndoRedoInverseWithinCapacity ==
  nextEntryId - 1 <= MaxHistoryLength => InverseLaw(nextEntryId - 1)

\* C1, one gesture at a time: one undo after a recording gesture restores the layers
\* the gesture started from, one redo after that the layers it left
C1_GestureInverse ==
  Pushes =>
    LET u == undo(layers', history', historyIndex')
    IN /\ u.layers = IF pressed THEN obs.downLayers[1] ELSE layers
       /\ redo(u.layers, history', u.historyIndex).layers = layers'

\* C1, amended: N undos and N redos are inverse to N recording gestures whose entries
\* fit into the capacity, and one undo / redo to the latest gesture at any length
C1_UndoRedoInverseAmended ==
  []C1_UndoRedoInverseWithinCapacity /\ [][C1_GestureInverse]_vars

\* a drawn object was moved by the selection tool and the history is full to capacity
C1_Witness ==
  /\ ~pointerDownRef
  /\ nextEntryId - 1 = MaxHistoryLength
  /\ Len(history) = MaxHistoryLength
  /\ history[MaxHistoryLength].description = "Move objects"
  /\ layers # undo(layers, history, historyIndex).layers

\* C2: every id in selectedObjectIds is the id of an object present in some layer
C2_SelectionNamesPresentObjects ==
  \A i \in 1..Len(selectedObjectIds) : getObject(layers, selectedObjectIds[i]) # <<>>

\* C3: a push made while entries are redoable discards every one of them: afterwards
\* canRedo() is false and redo changes neither layers nor cursor
C3_PushDiscardsRedoable ==
  [][(canRedo(history, historyIndex) /\ Pushes) =>
       /\ ~canRedo(history', historyIndex')
       /\ redo(layers', history', historyIndex')
            = [layers |-> layers', historyIndex |-> historyIndex']
       /\ \A i \in (historyIndex + 2)..Len(history) :
            \A j \in 1..Len(history') : history'[j].id # history[i].id]_vars

\* an entry was pushed over an undone one: entry 1 is gone although the list never
\* reached its capacity
C3_Witness ==
  /\ Len(history) = 1
  /\ history[1].id = 2
  /\ historyIndex = 0
  /\ nextEntryId = 3

\* C4 (bounds): the history never exceeds its capacity and the cursor is -1 or the
\* index of an entry
C4_CursorValid ==
  /\ Len(history) <= MaxHistoryLength
  /\ -1 <= historyIndex
  /\ historyIndex <= Len(history) - 1

\* C4 (eviction): a push onto a full list with the cursor at its end drops the oldest
\* entry, keeps the others in order, appends the new entry and leaves the cursor on it
C4_EvictsOldest ==
  (Pushes /\ Len(history) = MaxHistoryLength /\ historyIndex = Len(history) - 1) =>
    /\ Len(history') = MaxHistoryLength
    /\ SubSeq(history', 1, MaxHistoryLength - 1) = Tail(history)
    /\ history'[MaxHistoryLength].id = nextEntryId
    /\ historyIndex' = MaxHistoryLength - 1

\* C4: capacity eviction and cursor validity
C4_CapacityAndCursor == []C4_CursorValid /\ [][C4_EvictsOldest]_vars

\* the list is full and its first entry is not a creation: the creation that came
\* first was evicted (truncation only removes entries after the cursor)
C4_Witness ==
  /\ Len(history) = MaxHistoryLength
  /\ historyIndex = Len(history) - 1
  /\ history[1].operations[1].type # "add-object"

\* C5: undo at cursor -1 and redo at the last entry change nothing; canUndo() and
\* canRedo() say exactly whether undo and redo would move the cursor
C5_NoOpsAtEnds ==
  LET u == undo(layers, history, historyIndex)
      r == redo(layers, history, historyIndex)
      same == [layers |-> layers, historyIndex |-> historyIndex]
  IN /\ historyIndex = -1 => u = same
     /\ historyIndex = Len(history) - 1 => r = same
     /\ canUndo(history, historyIndex) <=> u.historyIndex # historyIndex
     /\ canRedo(history, historyIndex) <=> r.historyIndex # historyIndex

\* everything was undone: undo is at its end while redo is not
C5_Witness ==
  /\ Len(history) = MaxHistoryLength
  /\ historyIndex = -1

\* the pointer is within the drag threshold of where it went down
NearDown(point) ==
  HypotSq(point.x - obs.downPoint.x, point.y - obs.downPoint.y)
    <= Px(DRAG_THRESHOLD) * Px(DRAG_THRESHOLD)

\* C6: when a selection, shape or freehand gesture loses the pointer before its
\* pointer-up, the layers are what they were at its pointer-down
C6_CancelRestoresLayers ==
  [][(pressed /\ obs'.lost /\ obs.tool \in {"selection", "rectangle", "ellipse", "brush"})
       => layers' = obs.downLayers[1]]_vars

\* C7: a selection gesture whose pointer never leaves the drag threshold, a pointer-down
\* on a resize handle included, pushes no history entry and changes no layer
C7_SubThresholdCommitsNothing ==
  [][\A point \in Points :
       (SelectionPointerUp(point) /\ ~obs.far /\ NearDown(point)) =>
         /\ history' = history
         /\ historyIndex' = historyIndex
         /\ layers' = obs.downLayers[1]]_vars

\* C8: pointer-down and pointer-up at one point with no move between (a) on empty canvas
\* with nothing selected leave the selection empty and the history alone, (b) on an
\* object without shift select exactly that object and leave history and layers alone
C8_ClickIsIdempotent ==
  [][\A point \in Points :
       (SelectionPointerUp(point) /\ ~obs.moved /\ point = obs.downPoint) =>
         LET hit == hitTestLayers(obs.downPoint, obs.downLayers[1])
         IN /\ (hit = <<>> /\ obs.downSelection = <<>>) =>
                 /\ selectedObjectIds' = <<>>
                 /\ history' = history /\ historyIndex' = historyIndex
            /\ (hit # <<>> /\ ~sel.shiftHeld) =>
                 /\ selectedObjectIds' = <<hit[1].object.id>>
                 /\ history' = history /\ historyIndex' = historyIndex
                 /\ layers' = obs.downLayers[1]]_vars

\* C9 (move): after a pointer-move to point in moving mode every selected object is at
\* its position of the gesture's start plus (point - startPoint)
C9_MoveFollowsPointer(point) ==
  (SelectionPointerMove(point) /\ sel'.mode = "moving") =>
    \A i \in 1..Len(selectedObjectIds') :
      LET now == getObject(layers', selectedObjectIds'[i])
          start == getObject(obs.downLayers[1], selectedObjectIds'[i])
      IN now # <<>> =>
           /\ now[1].transform.x = start[1].transform.x + (point.x - sel.startPoint.x)
           /\ now[1].transform.y = start[1].transform.y + (point.y - sel.startPoint.y)

\* C9 (commit): the pointer-up of a move pushes one entry with one modify-object per
\* selected object, from its position at the gesture's start to its final position
C9_MoveCommitsOnce(point) ==
  (SelectionPointerUp(point) /\ sel.mode = "moving") =>
    LET entry == history'[Len(history')]
        moved == SelectSeq(selectedObjectIds, LAMBDA id : getObject(layers, id) # <<>>)
    IN /\ Pushes
       /\ entry.id = nextEntryId
       /\ Len(entry.operations) = Len(moved)
       /\ \A i \in 1..Len(moved) :
            LET op == entry.operations[i]
            IN /\ op.type = "modify-object"
               /\ op.objectId = moved[i]
               /\ op.before.transform = getObject(obs.downLayers[1], moved[i])[1].transform
               /\ op.after.transform = getObject(layers, moved[i])[1].transform

\* C9: move gesture
C9_MoveGesture ==
  [][\A point \in Points : C9_MoveFollowsPointer(point) /\ C9_MoveCommitsOnce(point)]_vars

\* C10: what a shape-tool pointer-up at point must leave behind
C10_Outcome(point) ==
  LET before == getActiveLayer(layers, activeLayerId)[1].objects
      after == getActiveLayer(layers', activeLayerId)[1].objects
      n == Len(before)
      entry == history'[Len(history')]
  IN IF HypotSq(point.x - shape.startPoint.x, point.y - shape.startPoint.y)
          >= Px(SHAPE_MIN_DIST) * Px(SHAPE_MIN_DIST)
     THEN /\ Len(after) = n + 1
          /\ SubSeq(after, 1, n) = before
          /\ getObject(layers, after[n + 1].id) = <<>>
          /\ Len(layers') = Len(layers)
          /\ \A i \in 1..Len(layers) :
               layers[i].id # activeLayerId => layers'[i] = layers[i]
          /\ selectedObjectIds' = <<after[n + 1].id>>
          /\ Pushes
          /\ historyIndex' = Len(history') - 1
          /\ entry.id = nextEntryId
          /\ Len(entry.operations) = 1
          /\ entry.operations[1].type = "add-object"
          /\ entry.operations[1].object = after[n + 1]
          /\ entry.operations[1].index = n
     ELSE UNCHANGED <<layers, selectedObjectIds, history, historyIndex>>

\* C10: with an active layer, a shape gesture released at or beyond the threshold
\* appends one object to the active layer, selects it and pushes one add-object entry
\* indexed at its position; a shorter gesture changes nothing
C10_ShapeCommit ==
  [][\A point \in DrawPoints, fill \in CreateFills :
       (getActiveLayer(layers, activeLayerId) # <<>> /\ shape.active
        /\ ShapePointerUp(point, fill)) => C10_Outcome(point)]_vars

\* a second shape was committed behind the first and is the selection
C10_Witness ==
  /\ Len(layers[1].objects) = 2
  /\ selectedObjectIds = <<layers[1].objects[2].id>>
  /\ historyIndex = Len(history) - 1
  /\ history[Len(history)].operations[1].index = 1
  /\ ~shape.active

\* the ids of a list, as a set
IdSet(ids) == {ids[i] : i \in 1..Len(ids)}

\* the closed x-ranges and the closed y-ranges of two boxes both overlap
ClosedOverlap(a, b) ==
  /\ a.x <= b.x + b.width
  /\ b.x <= a.x + a.width
  /\ a.y <= b.y + b.height
  /\ b.y <= a.y + a.height

\* the (layer index, object index) pairs of a layer list
ObjectIndices(ls) ==
  UNION {{<<i, j>> : j \in 1..Len(ls[i].objects)} : i \in 1..Len(ls)}

\* the visible unlocked objects of visible unlocked layers
Pickable(ls) ==
  {ls[i].objects[j] : <<i, j>> \in
     {ij \in ObjectIndices(ls) :
        /\ ls[ij[1]].visible /\ ~ls[ij[1]].locked
        /\ ls[ij[1]].objects[ij[2]].visible /\ ~ls[ij[1]].objects[ij[2]].locked}}

\* the ids of the pickable objects whose world bounding box meets the rectangle
\* spanned by a and b
MarqueeTargets(a, b, ls) ==
  {o.id : o \in {t \in Pickable(ls) : ClosedOverlap(rectFromPoints(a, b), getWorldBounds(t))}}

\* C11: releasing a marquee drag from a to b selects exactly the visible unlocked
\* objects of visible unlocked layers whose world bounding box intersects the rectangle
\* spanned by a and b, the same with a and b swapped, united with the selection from
\* before the gesture when the modifier was held at pointer-down
C11_MarqueeSelectsIntersecting ==
  [][\A point \in Points :
       (SelectionPointerUp(point) /\ sel.mode = "marquee")
       => /\ MarqueeTargets(obs.downPoint, point, layers)
               = MarqueeTargets(point, obs.downPoint, layers)
          /\ IdSet(selectedObjectIds')
               = MarqueeTargets(obs.downPoint, point, layers)
                   \cup (IF sel.shiftHeld THEN IdSet(obs.downSelection) ELSE {})]_vars

\* C12: boundsIntersect holds of a marquee rectangle and an object's world bounding box
\* whenever their closed x-ranges and closed y-ranges both overlap, touching edges and
\* corners included
C12_TouchingBoxesIntersect ==
  \A a \in Points, b \in Points :
    \A i \in 1..Len(AllObjects(layers)) :
      LET marquee == rectFromPoints(a, b)
          objBounds == getWorldBounds(AllObjects(layers)[i])
      IN ClosedOverlap(marquee, objBounds) => boundsIntersect(marquee, objBounds)

\* the object with this id as it was at the pointer-down of the gesture in progress
\* (<<>> when there was none)
ObjectAtDown(id) ==
  IF obs.downLayers = <<>> THEN <<>> ELSE getObject(obs.downLayers[1], id)

\* the selection is one rectangle that was unrotated, unscaled and of positive size
\* when the gesture in progress began
SingleRectangleAtDown ==
  /\ Len(selectedObjectIds) = 1
  /\ ObjectAtDown(selectedObjectIds[1]) # <<>>
  /\ LET o == ObjectAtDown(selectedObjectIds[1])[1]
     IN /\ o.type = "rectangle"
        /\ o.transform.rotation = 0 /\ o.transform.scaleX = 1 /\ o.transform.scaleY = 1
        /\ o.width > 0 /\ o.height > 0

\* C13: with a single unrotated, unscaled rectangle (x, y, w, h) selected, a pointer-move
\* of the bottom-right handle to (px, py) with px - x >= 2 and py - y >= 2 leaves the
\* position and makes the size (px - x, py - y); a pointer-move of the top-left handle
\* to (px, py) with x + w - px >= 2 and y + h - py >= 2 makes the position (px, py) and
\* the size (x + w - px, y + h - py)
C13_ResizeScaleLaw ==
  [][\A point \in Points :
       (SelectionPointerMove(point) /\ sel.mode = "resizing" /\ SingleRectangleAtDown)
       => LET o == ObjectAtDown(selectedObjectIds[1])[1]
              n == getObject(layers', selectedObjectIds[1])[1]
              x == o.transform.x
              y == o.transform.y
          IN /\ (/\ sel.handleId = "br"
                 /\ point.x - x >= Px(2)
                 /\ point.y - y >= Px(2))
                => /\ n.width = point.x - x
                   /\ n.height = point.y - y
                   /\ n.transform = o.transform
             /\ (/\ sel.handleId = "tl"
                 /\ x + o.width - point.x >= Px(2)
                 /\ y + o.height - point.y >= Px(2))
                => /\ n.transform = [o.transform EXCEPT !.x = point.x, !.y = point.y]
                   /\ n.width = x + o.width - point.x
                   /\ n.height = y + o.height - point.y]_vars

\* a top-left handle drag in progress has moved the rectangle's origin and shrunk it
C13_Witness ==
  /\ pressed /\ obs.moved
  /\ sel.mode = "resizing" /\ sel.handleId = "tl"
  /\ SingleRectangleAtDown
  /\ LET o == ObjectAtDown(selectedObjectIds[1])[1]
         n == getObject(layers, selectedObjectIds[1])[1]
     IN /\ n.transform.x > o.transform.x
        /\ n.transform.x + n.width = o.transform.x + o.width
        /\ n.width >= Px(2) /\ n.width < o.width

\* the merged world bounding box of the selected objects
SelectionBounds(ls, selection) ==
  LET selected == getSelectedObjects(ls, selection)
  IN mergeBounds([i \in 1..Len(selected) |-> getWorldBounds(selected[i])])

\* C14: at every pointer-move of a resize gesture the new combined bounds are at least
\* 2 wide and 2 high, whichever handle is dragged and wherever the pointer is; the
\* resized selection occupies bounds of at least that size
C14_ResizeMinimumSize ==
  [][\A point \in Points :
       (SelectionPointerMove(point) /\ sel.mode = "resizing")
       => /\ sel.origBounds # <<>>
          /\ \A h \in 1..Len(HandleIds) :
               LET nb == resizeBounds(sel.origBounds[1], HandleIds[h], point)
               IN nb.width >= Px(2) /\ nb.height >= Px(2)
          /\ SelectionBounds(layers', selectedObjectIds').width >= Px(2)
          /\ SelectionBounds(layers', selectedObjectIds').height >= Px(2)]_vars

\* a resize drag in progress went past the opposite edge and the selection was held at
\* the minimum width
C14_Witness ==
  /\ pressed /\ obs.moved
  /\ sel.mode = "resizing"
  /\ sel.origBounds # <<>>
  /\ sel.origBounds[1].width > Px(2)
  /\ SelectionBounds(layers, selectedObjectIds).width = Px(2)

\* the point lies within HANDLE_HIT_SIZE / 2, on both axes, of a corner or an edge
\* midpoint of the combined bounds of the selection (coordinates doubled)
WithinHandle(point) ==
  LET b == SelectionBounds(layers, selectedObjectIds)
      xs == <<2 * b.x, 2 * b.x + b.width, 2 * (b.x + b.width)>>
      ys == <<2 * b.y, 2 * b.y + b.height, 2 * (b.y + b.height)>>
  IN \E i \in 1..3, j \in 1..3 :
       /\ <<i, j>> # <<2, 2>>
       /\ Abs(2 * point.x - xs[i]) <= Px(HANDLE_HIT_SIZE)
       /\ Abs(2 * point.y - ys[j]) <= Px(HANDLE_HIT_SIZE)

\* pointer-down from idle enters resizing exactly when the selection is non-empty and
\* the point is within a handle, then without hit-testing objects or changing the
\* selection; otherwise it enters pending
C15_Down ==
  \A point \in Points, shiftKey \in BOOLEAN :
    (SelectionPointerDown(point, shiftKey) /\ sel.mode = "idle")
    => IF Len(selectedObjectIds) > 0 /\ WithinHandle(point)
       THEN /\ sel'.mode = "resizing"
            /\ sel'.handleId # "null"
            /\ sel'.hitObjectId = NoId
            /\ selectedObjectIds' = selectedObjectIds
       ELSE /\ sel'.mode = "pending"
            /\ sel'.handleId = "null"

\* pointer-move promotes pending to moving (object hit) or marquee (no hit) once the
\* travel from the start exceeds the threshold and changes the mode in no other way
C15_Move ==
  \A point \in Points :
    SelectionPointerMove(point)
    => sel'.mode = IF sel.mode = "pending" /\ ~NearDown(point)
                   THEN IF sel.hitObjectId # NoId THEN "moving" ELSE "marquee"
                   ELSE sel.mode

\* pointer-up returns to idle with every per-gesture field cleared
C15_Up ==
  \A point \in Points :
    SelectionPointerUp(point)
    => /\ sel'.mode = "idle"
       /\ sel'.hitObjectId = NoId
       /\ sel'.handleId = "null"
       /\ sel'.origTransforms = EmptyMap
       /\ sel'.origProps = EmptyMap
       /\ sel'.origBounds = <<>>

\* C15: the selection tool's mode changes as the state machine says: idle to resizing
\* exactly on a handle of a non-empty selection (no hit-test, selection unchanged), else
\* to pending; pending to moving or marquee only past the threshold; pointer-up back to
\* idle with hit id, handle id and the saved originals cleared
C15_StateMachine == [][C15_Down /\ C15_Move /\ C15_Up]_vars

\* a resize gesture has been released: the machine is idle and cleared, the resize is
\* in the history
C15_Witness ==
  /\ ~pressed /\ ~obs.lost
  /\ sel = freshState
  /\ Len(history) = 1
  /\ history[1].description = "Resize objects"

\* a release at point ends a gesture that never travelled beyond the drag threshold
ClickReleased(point) ==
  SelectionPointerUp(point) /\ ~obs.far /\ NearDown(point)

\* the ids in exactly one of the two sets
Toggle(ids, id) == IF id \in ids THEN ids \ {id} ELSE ids \cup {id}

\* C16: a click (press and release within the drag threshold) on an object without the
\* modifier selects exactly that object, with the modifier toggles its membership and
\* keeps the others; a click on empty canvas without the modifier empties the selection
\* and with the modifier leaves it as it was
C16_ClickSemantics ==
  [][\A point \in Points :
       ClickReleased(point)
       => LET hit == hitTestLayers(obs.downPoint, layers)
              before == obs.downSelection
          IN IF hit # <<>>
             THEN IF sel.shiftHeld
                  THEN IdSet(selectedObjectIds') = Toggle(IdSet(before), hit[1].object.id)
                  ELSE selectedObjectIds' = <<hit[1].object.id>>
             ELSE IF sel.shiftHeld
                  THEN selectedObjectIds' = before
                  ELSE selectedObjectIds' = <<>>]_vars

\* a pointer-move to point takes a press on an object that was not selected before the
\* gesture beyond the drag threshold
DragStartsOnUnselected(point) ==
  /\ SelectionPointerMove(point)
  /\ sel.mode = "pending" /\ sel'.mode = "moving"
  /\ sel.hitObjectId \notin IdSet(obs.downSelection)

\* C17: when a drag beyond the threshold starts on an unselected object with the
\* additive modifier held, the object joins the selection that existed, the others stay
\* selected and the origins of all selected objects are saved for the move; without the
\* modifier the object alone is selected
C17_DragSelectWithModifier ==
  [][\A point \in Points :
       DragStartsOnUnselected(point)
       => IF sel.shiftHeld
          THEN /\ IdSet(selectedObjectIds') = IdSet(obs.downSelection) \cup {sel.hitObjectId}
               /\ DOMAIN sel'.origTransforms = IdSet(selectedObjectIds')
          ELSE /\ selectedObjectIds' = <<sel.hitObjectId>>
               /\ DOMAIN sel'.origTransforms = {sel.hitObjectId}]_vars

\* the (layer index, object index) pairs of the visible unlocked objects in visible
\* unlocked layers that contain the point
Candidates(point, ls) ==
  {ij \in ObjectIndices(ls) :
     /\ ls[ij[1]].visible /\ ~ls[ij[1]].locked
     /\ ls[ij[1]].objects[ij[2]].visible /\ ~ls[ij[1]].objects[ij[2]].locked
     /\ hitTestObject(point, ls[ij[1]].objects[ij[2]])}

\* the greatest pair of a non-empty set, layer index first
Topmost(pairs) ==
  CHOOSE t \in pairs :
    \A u \in pairs : u[1] < t[1] \/ (u[1] = t[1] /\ u[2] <= t[2])

\* what the hit-test is to return for the point: nothing, or the topmost candidate with
\* the id of its layer
ExpectedHit(point, ls) ==
  IF Candidates(point, ls) = {} THEN <<>>
  ELSE LET t == Topmost(Candidates(point, ls))
       IN <<[object |-> ls[t[1]].objects[t[2]], layerId |-> ls[t[1]].id]>>

\* hitTestLayers returns the topmost candidate at every point
C18_Order == \A point \in Points : hitTestLayers(point, layers) = ExpectedHit(point, layers)

\* a pointer-down that hit-tests records the topmost candidate and changes no layer
C18_Down ==
  \A point \in Points, shiftKey \in BOOLEAN :
    (SelectionPointerDown(point, shiftKey) /\ sel'.mode = "pending")
    => /\ layers' = layers
       /\ sel'.hitObjectId = IF ExpectedHit(point, layers) = <<>> THEN NoId
                             ELSE ExpectedHit(point, layers)[1].object.id

\* C18: hitTestLayers returns the object with the greatest (layer index, object index)
\* among the visible unlocked objects of visible unlocked layers that contain the point,
\* with the id of its layer, and nothing exactly when there is no such object; the
\* hit-test changes nothing
C18_HitTestOrder == []C18_Order /\ [][C18_Down]_vars

\* a press landed on the ellipse of the lower layer although the square of the upper
\* layer covers the point, the square being locked
C18_Witness ==
  /\ pressed /\ sel.mode = "pending"
  /\ Len(layers) = 2
  /\ layers[2].visible /\ ~layers[2].locked
  /\ layers[2].objects[1].locked
  /\ hitTestObject(obs.downPoint, layers[2].objects[1])
  /\ hitTestObject(obs.downPoint, layers[1].objects[1])
  /\ sel.hitObjectId = layers[1].objects[2].id

\* the document holds one object only, a visible unlocked rectangle in a visible
\* unlocked layer, unrotated, unscaled, at least one pixel wide and high
SoleRectangle ==
  /\ Len(AllObjects(layers)) = 1
  /\ Pickable(layers) # {}
  /\ LET o == AllObjects(layers)[1]
     IN /\ o.type = "rectangle"
        /\ o.transform.rotation = 0 /\ o.transform.scaleX = 1 /\ o.transform.scaleY = 1
        /\ o.width >= Px(1) /\ o.height >= Px(1)

\* C19: for a visible unlocked unrotated rectangle of width and height at least 1 at
\* (x, y) that is the only object, the hit-test at (x + 1, y + 1) returns it and the
\* hit-test at (x - 1, y - 1) returns nothing
C19_HitTestMonotone ==
  SoleRectangle
  => LET o == AllObjects(layers)[1]
         x == o.transform.x
         y == o.transform.y
     IN /\ hitTestLayers(Pt(x + Px(1), y + Px(1)), layers) # <<>>
        /\ hitTestLayers(Pt(x + Px(1), y + Px(1)), layers)[1].object = o
        /\ hitTestLayers(Pt(x - Px(1), y - Px(1)), layers) = <<>>

\* a press has hit the only object, a rectangle exactly one pixel wide and high
C19_Witness ==
  /\ SoleRectangle
  /\ AllObjects(layers)[1].width = Px(1)
  /\ AllObjects(layers)[1].height = Px(1)
  /\ pressed
  /\ sel.hitObjectId = AllObjects(layers)[1].id

\* the document has an empty selection and an empty history with the cursor at -1, can
\* neither undo nor redo, and undo and redo leave its layers as they are
FreshBaseline(ls, selection, h, idx) ==
  /\ selection = <<>>
  /\ h = <<>>
  /\ idx = -1
  /\ ~canUndo(h, idx)
  /\ ~canRedo(h, idx)
  /\ undo(ls, h, idx).layers = ls
  /\ redo(ls, h, idx).layers = ls

\* C20: after loadDocument(L, a) the layers are L, the active layer is a, the selection
\* and the history are empty and the cursor is -1, so that nothing can be undone or
\* redone and undo and redo cannot bring back the previous document; newDocument
\* likewise leaves one empty layer, active, with empty selection and history
C20_LoadIsFreshBaseline ==
  [][/\ \A data \in LoadedDocuments :
          OpenDocument(data)
          => /\ layers' = data
             /\ activeLayerId' = data[1].id
             /\ FreshBaseline(layers', selectedObjectIds', history', historyIndex')
     /\ NewDocument
        => /\ Len(layers') = 1
           /\ layers'[1].objects = <<>>
           /\ activeLayerId' = layers'[1].id
           /\ FreshBaseline(layers', selectedObjectIds', history', historyIndex')]_vars

\* a project file has just replaced a document that had history: the layers are the
\* file's, the history is empty
C20_Witness ==
  /\ layers \in LoadedDocuments
  /\ history = <<>> /\ historyIndex = -1
  /\ nextEntryId > 1
  /\ nextLayerId > 2
  /\ nextObjectId > Len(AllObjects(layers)) + 1

\* C21: loading the saved project data yields the layer list and the active-layer id
\* the document had when it was saved, also when the active layer was not the first
C21_SaveLoadRoundTrip ==
  [][OpenSaved
     => /\ layers' = storage[1].atSave.layers
        /\ activeLayerId' = storage[1].atSave.activeLayerId]_vars

\* C22: a load of persisted data with an unknown variant tag, a missing field or an
\* unsupported or absent layer payload is refused and leaves layers, active layer,
\* selection, history and cursor as they were
C22_MalformedLoadRejected ==
  [][\A text \in MalformedFiles :
       FileChange(text)
       => UNCHANGED <<layers, activeLayerId, selectedObjectIds, history, historyIndex>>]_vars

\* no layer of the document has this id
StaleLayerId(layerId) == \A i \in 1..Len(layers) : layers[i].id # layerId

\* no object of any layer has this id
StaleObjectId(objectId) == getObject(layers, objectId) = <<>>

\* C23: updateObject and removeObject with an id that names no object, and addObject
\* with a layer id that names no layer, leave layers, active layer id, history and cursor
\* unchanged
C23_StaleIdsAreNoOps ==
  [][/\ \A objectId \in StoreIds, updates \in StoreUpdates :
          (StoreUpdateObject(objectId, updates) /\ StaleObjectId(objectId))
          => UNCHANGED <<layers, activeLayerId, history, historyIndex>>
     /\ \A objectId \in StoreIds :
          (StoreRemoveObject(objectId) /\ StaleObjectId(objectId))
          => UNCHANGED <<layers, activeLayerId, history, historyIndex>>
     /\ \A layerId \in 1..MaxLayers :
          (StoreAddObject(layerId) /\ StaleLayerId(layerId))
          => UNCHANGED <<layers, activeLayerId, history, historyIndex>>]_vars

\* addObject has just been called with a layer id that names no layer, on a document
\* that holds an object and a history entry
C23_Witness ==
  /\ obs.staleCall = "addObject"
  /\ Len(AllObjects(layers)) > 0
  /\ Len(history) > 0
  /\ nextObjectId > Len(AllObjects(layers)) + 1

\* a step of a click or marquee gesture of the selection tool: the press, a move that
\* leaves the gesture pending or in marquee mode, a release in one of these modes
ClickOrMarqueeStep ==
  \E point \in GestureDrawPoints :
    \/ \E shiftKey \in BOOLEAN : StartSelectingGesture(point, shiftKey)
    \/ SelectionPointerMove(point) /\ sel'.mode \in {"pending", "marquee"}
    \/ SelectionPointerUp(point) /\ sel.mode \in {"pending", "marquee"}

\* a direct call of one of the selection primitives of the store
SelectionCall ==
  \/ \E objectId \in SelectingIds, add \in BOOLEAN : StoreSelectObject(objectId, add)
  \/ \E objectId \in SelectingIds : StoreDeselectObject(objectId)
  \/ StoreDeselectAll
  \/ StoreSelectAll
  \/ \E objectIds \in StoreSelections : StoreSetSelection(objectIds)

ScaleBy(point, transform) == Pt(point.x * transform.scaleX, point.y * transform.scaleY)

TurnBy(point, transform) ==
  Pt(point.x * CosDeg(transform.rotation) - point.y * SinDeg(transform.rotation),
     point.x * SinDeg(transform.rotation) + point.y * CosDeg(transform.rotation))

ShiftBy(point, transform) == Pt(point.x + transform.x, point.y + transform.y)

\* local points the round trip is taken from
RoundTripPoints == {Pt(Px(3), 0), Pt(Px(6), Px(12)), Pt(-Px(6), Px(3))}

\* the transforms of the objects of the document
DocumentTransforms == {AllObjects(layers)[i].transform : i \in 1..Len(AllObjects(layers))}

\* C25: for every point p and every transform t with scaleX # 0 and scaleY # 0,
\* worldToLocal(localToWorld(p, t), t) = p, and localToWorld applies the scale, then the
\* rotation, then the translation
C25_TransformRoundTrip ==
  \A t \in DocumentTransforms, p \in RoundTripPoints :
    (t.scaleX # 0 /\ t.scaleY # 0)
    => /\ worldToLocal(localToWorld(p, t), t) = p
       /\ localToWorld(p, t) = ShiftBy(TurnBy(ScaleBy(p, t), t), t)

\* an object turned by a quarter, mirrored on one axis, doubled on the other and moved
\* has been picked by a press of the selection tool
C25_Witness ==
  /\ pressed
  /\ \E i \in 1..Len(AllObjects(layers)) :
       LET o == AllObjects(layers)[i]
       IN /\ o.transform.rotation = 90
          /\ o.transform.scaleX = 2
          /\ o.transform.scaleY = -1
          /\ o.transform.x # 0
          /\ sel.hitObjectId = o.id

\* the calls of a canvas that paint a resize handle, and those that stroke an outline
HandleCalls(calls) == SelectSeq(calls, LAMBDA c : c.op = "fillRect" /\ c.role = "handle")

OutlineCalls(calls) == SelectSeq(calls, LAMBDA c : c.op = "strokeRect" /\ c.role = "outline")

\* every selected id names a visible top-level object of a visible layer
AllSelectedShown(ls, selection) ==
  \A k \in 1..Len(selection) :
    \E i \in 1..Len(ls) : \E j \in 1..Len(ls[i].objects) :
      /\ ls[i].visible
      /\ ls[i].objects[j].visible
      /\ ls[i].objects[j].id = selection[k]

\* one outline per selected object, and eight handles at the corners and edge midpoints
\* of the combined world bounds (handlePositions gives them doubled)
OverlayMatchesSelection(calls, ls, selection) ==
  LET selected == getSelectedObjects(ls, selection)
      combined == mergeBounds([i \in 1..Len(selected) |-> getWorldBounds(selected[i])])
      tested == handlePositions(combined)
      painted == HandleCalls(calls)
  IN /\ Len(OutlineCalls(calls)) = Len(selection)
     /\ Len(painted) = 8
     /\ \A i \in 1..8 : Pt(2 * painted[i].center.x, 2 * painted[i].center.y) = tested[i]

\* C26: with two or more objects selected, renderSelectionOverlay paints one outline per
\* selected object and exactly eight resize handles, at the eight positions of the
\* combined world bounding box that the selection tool hit-tests
C26_OverlayHandlesOfMultiSelection ==
  [][(/\ RenderOverlay
      /\ Len(selectedObjectIds) >= 2
      /\ AllSelectedShown(layers, selectedObjectIds))
     => OverlayMatchesSelection(surface'.overlay, layers', selectedObjectIds')]_vars

\* an object and the objects below it in its group
RECURSIVE Subtree(_)
Subtree(obj) ==
  {obj} \cup (IF obj.type = "group"
              THEN UNION {Subtree(obj.children[i]) : i \in 1..Len(obj.children)}
              ELSE {})

\* every object of the document, at any depth
DocumentObjects(ls) ==
  UNION {Subtree(AllObjects(ls)[i]) : i \in 1..Len(AllObjects(ls))}

\* C27: for every object of every variant, the local bounds the renderer uses for the
\* selection outline equal getLocalBounds(obj)
C27_OneLocalBoundsDerivation ==
  [][RenderOverlay
     => \A k \in 1..Len(OutlineCalls(surface'.overlay)) :
          LET call == OutlineCalls(surface'.overlay)[k]
          IN \A o \in DocumentObjects(layers) :
               o.id = call.objectId => call.bounds = getLocalBounds(o)]_vars

\* the paint calls of a canvas, in order
PaintCalls(calls) == SelectSeq(calls, LAMBDA c : c.op = "paint")

\* saves minus restores among the first k calls
StackDepth(calls, k) ==
  Cardinality({i \in 1..k : calls[i].op = "save"})
  - Cardinality({i \in 1..k : calls[i].op = "restore"})

\* the objects to paint, as the claim lists them: layers in list order, objects in list
\* order, the children of a group in their order in its place; everything invisible
\* left out; each with the product of the opacities of its layer, its groups and itself
ExpectedOfObject(obj, layerOpacity) ==
  IF ~obj.visible THEN <<>>
  ELSE IF obj.type # "group"
  THEN <<[objectId |-> obj.id, num |-> layerOpacity * obj.opacity,
          den |-> FullOpacity * FullOpacity]>>
  ELSE LET shown == SelectSeq(obj.children, LAMBDA c : c.visible)
       IN [k \in 1..Len(shown) |->
             [objectId |-> shown[k].id,
              num |-> layerOpacity * obj.opacity * shown[k].opacity,
              den |-> FullOpacity * FullOpacity * FullOpacity]]

ExpectedPaints(ls) ==
  Flatten([i \in 1..Len(ls) |->
    IF ~ls[i].visible THEN <<>>
    ELSE Flatten([j \in 1..Len(ls[i].objects) |->
           ExpectedOfObject(ls[i].objects[j], ls[i].opacity)])])

PaintedAsExpected(calls, ls) ==
  LET painted == PaintCalls(calls)
      expected == ExpectedPaints(ls)
  IN /\ Len(calls) > 0
     /\ calls[1].op = "clearRect"
     /\ \A k \in 2..Len(calls) : calls[k].op # "clearRect"
     /\ Len(painted) = Len(expected)
     /\ \A k \in 1..Len(painted) :
          /\ painted[k].objectId = expected[k].objectId
          /\ painted[k].alpha.num * expected[k].den = expected[k].num * painted[k].alpha.den
     /\ \A k \in 1..Len(calls) : StackDepth(calls, k) >= 0
     /\ StackDepth(calls, Len(calls)) = 0

\* C28: renderScene first clears the target and then paints exactly the visible objects
\* of the visible layers, layers and objects in list order, each with the product of the
\* opacities of its layer, its groups and itself; nothing invisible is painted; every
\* save is matched by a restore
C28_RenderOrder ==
  [][RenderMain => PaintedAsExpected(surface'.main, layers)]_vars

\* the main canvas shows a file whose lower layer is hidden and whose group hides its
\* text: the line of the group is painted at half opacity, the text and the rectangle
\* of the lower layer are not painted
C28_Witness ==
  LET painted == PaintCalls(surface.main)
  IN /\ ~layers[1].visible
     /\ \E k \in 1..Len(painted) :
          /\ painted[k].objectId = 4
          /\ painted[k].alpha.num * 2 = painted[k].alpha.den
     /\ \A k \in 1..Len(painted) : painted[k].objectId \notin {1, 5}
     /\ \E k \in 1..Len(painted) : painted[k].objectId = 6

\* consecutive samples of the stroke in progress are at least MIN_DISTANCE apart
SamplesApart ==
  \A i \in 1..(Len(freehand.points) - 1) :
    HypotSq(freehand.points[i + 1].x - freehand.points[i].x,
            freehand.points[i + 1].y - freehand.points[i].y)
      >= Px(MIN_DISTANCE) * Px(MIN_DISTANCE)

\* obj is the open path of the samples pts: placed at the first sample, one move-to at
\* (0,0), then one cubic segment per remaining sample, ending at that sample relative
\* to the first
IsStrokeOf(obj, pts) ==
  /\ obj.type = "path"
  /\ ~obj.closed
  /\ obj.transform.x = pts[1].x
  /\ obj.transform.y = pts[1].y
  /\ Len(obj.segments) = Len(pts)
  /\ obj.segments[1] = [type |-> "M", x |-> 0, y |-> 0]
  /\ \A k \in 2..Len(pts) :
       /\ obj.segments[k].type = "C"
       /\ obj.segments[k].x = pts[k].x - pts[1].x
       /\ obj.segments[k].y = pts[k].y - pts[1].y

\* the release of a stroke of fewer than two samples adds and records nothing
ShortStrokeAddsNothing ==
  \A fill \in CreateFills :
    (BrushPointerUp(fill) /\ freehand.active /\ Len(freehand.points) < 2)
    => UNCHANGED <<layers, selectedObjectIds, history, historyIndex, nextEntryId>>

\* the release of a stroke of three or more samples appends its path to the active
\* layer, selects it, and pushes one entry holding one add-object operation
LongStrokeCommitsOnePath ==
  \A fill \in CreateFills :
    (BrushPointerUp(fill) /\ freehand.active /\ Len(freehand.points) >= 3)
    => LET before == getActiveLayer(layers, activeLayerId)[1].objects
           after == getActiveLayer(layers', activeLayerId)[1].objects
           added == after[Len(after)]
           entry == history'[Len(history')]
       IN /\ Len(after) = Len(before) + 1
          /\ SubSeq(after, 1, Len(before)) = before
          /\ IsStrokeOf(added, freehand.points)
          /\ Len(AllObjects(layers')) = Len(AllObjects(layers)) + 1
          /\ selectedObjectIds' = <<added.id>>
          /\ nextEntryId' = nextEntryId + 1
          /\ historyIndex' = Len(history') - 1
          /\ Len(entry.operations) = 1
          /\ entry.operations[1].type = "add-object"
          /\ entry.operations[1].object = added
          /\ entry.operations[1].layerId = activeLayerId

\* C29: consecutive freehand samples are at least the minimum spacing apart; a stroke of
\* fewer than two samples adds no object and pushes no history entry; a stroke of
\* n >= 3 samples appends one open path at the first sample, with one move-to at (0,0)
\* and n - 1 cubic segments ending at the remaining samples, selects it and pushes
\* exactly one add-object entry
C29_FreehandCommit ==
  /\ []SamplesApart
  /\ [][ShortStrokeAddsNothing /\ LongStrokeCommitsOnePath]_vars

\* a stroke of three samples has been committed
C29_Witness ==
  /\ ~pressed
  /\ Len(history) = 1
  /\ \E i \in 1..Len(layers[1].objects) :
       /\ layers[1].objects[i].type = "path"
       /\ Len(layers[1].objects[i].segments) = 3
       /\ selectedObjectIds = <<layers[1].objects[i].id>>

\* an object without area or length: a rectangle of width or height 0, an ellipse with a
\* zero radius, a polygon of radius 0, a line ending where it starts
IsDegenerate(obj) ==
  CASE obj.type = "rectangle" -> obj.width = 0 \/ obj.height = 0
    [] obj.type = "ellipse" -> obj.radiusX = 0 \/ obj.radiusY = 0
    [] obj.type = "polygon" -> obj.radius = 0
    [] obj.type = "line" -> obj.endX = 0 /\ obj.endY = 0
    [] OTHER -> FALSE

\* C30: hit-testing an object without area or length reports no hit, for every query
\* point
C30_DegenerateGeometryIsNeverHit ==
  [][\A point \in PickPoints, shiftKey \in BOOLEAN :
       (/\ StartSelectionGesture(point, shiftKey)
        /\ \A i \in 1..Len(AllObjects(layers)) : IsDegenerate(AllObjects(layers)[i]))
       => sel'.hitObjectId = NoId]_vars

\* ---- C31 ----
\* the selection names objects of the document only
SelectionPresent ==
  \A i \in 1..Len(selectedObjectIds) : getObject(layers, selectedObjectIds[i]) # <<>>

\* C31: pressing Delete with a non-empty selection of objects of the document removes
\* exactly the selected objects and pushes one history entry; one undo then restores
\* every layer's object list to its contents and order before the delete, and one redo
\* removes the same objects again.
C31_DeleteUndoRestoresOrder ==
  [][DeleteSelected /\ SelectionPresent =>
       LET undone == undo(layers', history', historyIndex')
           redone == redo(undone.layers, history', undone.historyIndex)
       IN /\ \A i \in 1..Len(layers) :
               layers'[i].objects =
                 SelectSeq(layers[i].objects, LAMBDA o : ~Includes(selectedObjectIds, o.id))
          /\ nextEntryId' = nextEntryId + 1
          /\ history'[historyIndex' + 1].id = nextEntryId
          /\ undone.layers = layers
          /\ redone.layers = layers']_vars

\* ---- C32 ----
\* every entry pushed so far is still in the history list or was discarded by a push
\* after an undo: the list never overflowed
NothingEvicted == nextEntryId <= MaxHistoryLength + 1

\* C32: whatever the interleaving of arrow-key nudges, the debounce callback, selection
\* changes, move gestures, delete and undo / redo, once the timer has fired and no
\* gesture is under way, undoing every entry up to the cursor restores the layers the
\* run started with: every displacement made by a nudge is recorded exactly once.
C32_NudgesCoveredByHistory ==
  (~nudge.timerRef /\ ~pressed /\ NothingEvicted)
    => undoTimes(layers, history, historyIndex, historyIndex + 1).layers = NudgeDocument

\* ---- C33 ----
\* the pointer is released in this step
Released == pressed /\ ~pressed'

\* the drag that ends in this step left the layers as they were at pointer-down, or
\* pushed one entry whose undo leads back to them
DragCoveredOrReverted ==
  \/ layers' = obs.downLayers[1] /\ nextEntryId' = nextEntryId
  \/ /\ nextEntryId' = nextEntryId + 1
     /\ undo(layers', history', historyIndex').layers = obs.downLayers[1]

\* C33: when the pointer of a selection-tool move or resize gesture is released, whatever
\* tool has become active in between, every change the drag made is covered by exactly
\* one pushed history entry or has been reverted, and the selection tool is idle
\* before its next pointer-down.
C33_ToolSwitchDuringDrag ==
  [][/\ (Released /\ obs.tool = "selection" /\ sel.mode \in {"moving", "resizing"})
          => DragCoveredOrReverted
     /\ (\E point \in GesturePoints : StartSelectionGesture(point, FALSE))
          => sel.mode = "idle"]_vars

\* ---- C34 ----
\* an edit made through the properties panel or the colour picker
PanelEdit ==
  \/ \E edit \in PanelTransformEdits : PanelSetTransformField(edit[1], edit[2])
  \/ \E edit \in PanelNumericEdits : PanelSetNumericField(edit[1], edit[2])
  \/ \E fill \in PanelFills : PanelSetFill(fill)
  \/ \E opacity \in PanelOpacities : PanelSetOpacity(opacity)
  \/ \E color \in PickerColors : ColorPickerFill(color)

\* C34: every change to an object's fields made through the properties panel or the
\* colour picker comes with a history entry, so that one undo restores the previous
\* value of the changed field.
C34_PanelEditsAreUndoable ==
  [][(layers' # layers /\ PanelEdit)
       => /\ nextEntryId' = nextEntryId + 1
          /\ undo(layers', history', historyIndex').layers = layers]_vars

\* ---- C35 ----
\* the edges of the new bounds nb that the handle does not govern are where the box ob
\* captured at drag start has them
AnchorFixed(ob, handleId, nb) ==
  /\ handleId \notin {"tl", "ml", "bl"} => nb.x = ob.x
  /\ handleId \notin {"tr", "mr", "br"} => nb.x + nb.width = ob.x + ob.width
  /\ handleId \notin {"tl", "tc", "tr"} => nb.y = ob.y
  /\ handleId \notin {"bl", "bc", "br"} => nb.y + nb.height = ob.y + ob.height

\* C35: at every pointer-move of a resize gesture, the edges of the new combined bounds
\* that the dragged handle does not govern coincide with the edges of the combined box
\* captured at drag start, wherever the pointer is, the positions where the minimum size
\* applies included.
C35_ResizeAnchorFixed ==
  [][\A point \in Points :
       (SelectionPointerMove(point) /\ sel'.mode = "resizing")
         => AnchorFixed(sel'.origBounds[1], sel'.handleId,
                        resizeBounds(sel'.origBounds[1], sel'.handleId, point))]_vars

\* the objects selected when the gesture in progress began are unrotated, unscaled
\* rectangles, ellipses and lines whose combined box has positive width and height
ResizeEligible ==
  /\ obs.downLayers # <<>>
  /\ LET selected == getSelectedObjects(obs.downLayers[1], selectedObjectIds)
         box == SelectionBounds(obs.downLayers[1], selectedObjectIds)
     IN /\ Len(selected) > 0
        /\ \A i \in 1..Len(selected) :
             /\ selected[i].type \in {"rectangle", "ellipse", "line"}
             /\ selected[i].transform.rotation = 0
             /\ selected[i].transform.scaleX = 1
             /\ selected[i].transform.scaleY = 1
        /\ box.width > 0 /\ box.height > 0

\* C36: for a selection of unrotated, unscaled rectangles, ellipses and lines whose
\* combined box at drag start has positive width and height, after every pointer-move of
\* a resize the combined world bounding box of the selected objects equals the clamped
\* new bounds, and one undo after the release restores every selected object to its
\* drag-start position and size
C36_ResizeMapsOntoNewBounds ==
  [][\A point \in ResizePoints :
       /\ (SelectionPointerMove(point) /\ sel.mode = "resizing" /\ ResizeEligible)
            => SelectionBounds(layers', selectedObjectIds')
                 = resizeBounds(SelectionBounds(obs.downLayers[1], selectedObjectIds),
                                sel.handleId, point)
       /\ (SelectionPointerUp(point) /\ sel.mode = "resizing" /\ ResizeEligible)
            => undo(layers', history', historyIndex').layers = obs.downLayers[1]]_vars

\* a resize of a rectangle and a line selected together has been released with the
\* selection at another size than at drag start, and the gesture is the last entry
C36_Witness ==
  /\ ~pressed
  /\ Len(selectedObjectIds) = 2
  /\ historyIndex >= 0 /\ historyIndex = Len(history) - 1
  /\ history[historyIndex + 1].description = "Resize objects"
  /\ Len(history[historyIndex + 1].operations) = 2
  /\ \E i \in 1..2 : getObject(layers, selectedObjectIds[i]) # <<>>
                     /\ getObject(layers, selectedObjectIds[i])[1].type = "line"
  /\ SelectionBounds(layers, selectedObjectIds)
       # SelectionBounds(undo(layers, history, historyIndex).layers, selectedObjectIds)

\* C37: in every state reached from the initial document by newDocument, addLayer,
\* removeLayer, updateLayer, the opening of project files and tool gestures, the layer
\* list is non-empty and activeLayerId is the id of a layer of the list
C37_LayerInvariant ==
  /\ Len(layers) > 0
  /\ \E i \in 1..Len(layers) : layers[i].id = activeLayerId

\* the index names an element of the list
ValidIndex(arr, index) == index >= 0 /\ index < Len(arr)

\* both lists have the same length and hold exactly the same elements
SameElements(a, b) ==
  /\ Len(a) = Len(b)
  /\ {a[i] : i \in 1..Len(a)} = {b[i] : i \in 1..Len(b)}

\* C38: reorderObject and reorderLayer with a from index outside the list leave the
\* list unchanged; after a call with any indices the list has the same length and
\* exactly the same elements; and for valid indices the undo of a reorder-object
\* operation restores the original order
C38_ReorderIsSafe ==
  [][\A fromIndex \in ReorderIndices, toIndex \in ReorderIndices :
       /\ \A k \in 1..Len(layers) :
            StoreReorderObject(layers[k].id, fromIndex, toIndex)
              => /\ ~ValidIndex(layers[k].objects, fromIndex) => layers' = layers
                 /\ SameElements(layers'[k].objects, layers[k].objects)
                 /\ (ValidIndex(layers[k].objects, fromIndex)
                       /\ ValidIndex(layers[k].objects, toIndex))
                      => applyOperationReverse(layers',
                           [type |-> "reorder-object", layerId |-> layers[k].id,
                            fromIndex |-> fromIndex, toIndex |-> toIndex]) = layers
       /\ StoreReorderLayer(fromIndex, toIndex)
            => /\ ~ValidIndex(layers, fromIndex) => layers' = layers
               /\ SameElements(layers', layers)]_vars

\* the ids of the objects below a group, at any depth
RECURSIVE Descendants(_)
Descendants(obj) ==
  IF obj.type # "group" THEN {}
  ELSE UNION {{obj.children[i].id} \cup Descendants(obj.children[i])
                : i \in 1..Len(obj.children)}

\* C39: for every id for which getObject returns an object, group children included,
\* updateObject(id, u) makes getObject(id) reflect u and removeObject(id) makes
\* getObject(id) return undefined; and removing a group makes getObject return undefined
\* for the group and for every descendant
C39_LookupAgreesWithMutation ==
  [][\A objectId \in GroupIds :
       getObject(layers, objectId) # <<>>
         => /\ \A updates \in GroupUpdates :
                 StoreUpdateObject(objectId, updates)
                   => /\ getObject(layers', objectId) # <<>>
                      /\ \A k \in DOMAIN updates :
                           getObject(layers', objectId)[1][k] = updates[k]
            /\ StoreRemoveObject(objectId)
                 => /\ getObject(layers', objectId) = <<>>
                    /\ \A id \in Descendants(getObject(layers, objectId)[1]) :
                         getObject(layers', id) = <<>>]_vars

\* the renderer paints the object, or a descendant of it, over the point: the object is
\* visible and, for a group, a child is painted over the point taken to the local space
\* of the group
RECURSIVE PaintedAt(_, _)
PaintedAt(worldPoint, obj) ==
  /\ obj.visible
  /\ IF obj.type = "group"
     THEN \E i \in 1..Len(obj.children) :
            PaintedAt(worldToLocal(worldPoint, obj.transform), obj.children[i])
     ELSE hitTestObject(worldPoint, obj)

\* C40: a group is reported as hit at a point only if a descendant that the renderer
\* paints (visible, with all its ancestors visible) contains the point
C40_HitAgreesWithVisibility ==
  \A point \in HitPoints :
    LET hit == hitTestLayers(point, layers)
    IN (hit # <<>> /\ hit[1].object.type = "group") => PaintedAt(point, hit[1].object)

====
